---- MODULE Spec2Model ----
(***************************************************************************)
(* VMController (src/app/vm_control.py), VM preparation                     *)
(* (src/app/snapshot.py), the action pipeline (src/app/task_adapter.py)    *)
(* and the worker thread of a task run with the main window's retry/skip   *)
(* buttons (src/app/gui.py), as a call-stack machine.                      *)
(*                                                                         *)
(* Every Python function of the program is one action; a call pushes a     *)
(* frame, a return or a raise pops it and hands the outcome to the caller  *)
(* in `ret`.  External processes (vmrun, vmware) are the environment: each *)
(* subprocess call draws its outcome nondeterministically.                 *)
(* Times are in tenths of a second; text is a sequence of characters or of *)
(* whole words.                                                            *)
(***************************************************************************)
EXTENDS Integers, Sequences, FiniteSets, TLC

VARIABLES
    vmx_path,   \* VMController.vmx_path, normalized by __init__
    stack,      \* the call stack, innermost frame last
    ret,        \* what the callee that just ended handed to its caller
    call,       \* the controller call in progress, or the one that just ended
    spawned,    \* history: per command kind, the external calls issued during `call`
    failed,     \* history: per command kind, how many of them ended in a raise
    lastproc,   \* history: the last external call of `call` and its outcome
    slept,      \* history: the backoff sleeps taken during `call`
    phase,      \* history: progress of a snapshot revert during `call`:
                \* "none", "reverted" (a revertToSnapshot command succeeded),
                \* "launched" (the launcher was issued after that, whatever
                \* came of it), "running" (a listing after that launch showed
                \* the VM)
    run,        \* history: what `call` has done so far (see NoRun)
    ui,         \* what the worker thread and the main window share: the two
                \* decision latches, the queued signals, the retry/skip buttons
    window,     \* the main window with its worker threads and the run
                \* directories on the host (see NoWindow)
    guest,      \* the action files and the generic action runners in the
                \* guest, with the pipeline that puts them there (see NoGuest)
    registry    \* ACTION_HANDLERS and the TaskRunners built from it (see
                \* NoRegistry)

vars == <<vmx_path, stack, ret, call, spawned, failed, lastproc, slept, phase,
          run, ui, window, guest, registry>>

\* everything but the main window
core == <<vmx_path, stack, ret, call, spawned, failed, lastproc, slept, phase,
          run, ui, guest, registry>>

\* the action types that are registered more than once, and one that never is
DecoratedTypes == {"open", "activate_window"}
DispatchedTypes == DecoratedTypes \cup {"mystery"}

\* `ACTION_HANDLERS = {}`: no type has a handler (0); a handler is known by
\* the position of its @register among those executed
NoHandlers == [t \in DispatchedTypes |-> 0]

NoRegistry ==
    [ACTION_HANDLERS |-> NoHandlers,
     registered |-> <<>>,   \* the types of the @register executed, in order
     runners |-> <<>>,      \* the TaskRunners built, with what they copied
     last |-> [runner |-> 0, type |-> "none", handler |-> 0]]
                            \* the last dispatch of a run_config

\* no pipeline of generic actions is running
NoGuest == [task |-> <<>>, i |-> 1, ended |-> "no", files |-> <<>>, runners |-> <<>>]

\* AnnotatorKitGUI.__init__ and init_ui: nothing selected, both buttons
\* disabled, no worker thread, no run directory
NoWindow ==
    [current_task |-> "none",
     current_run_id |-> <<>>,
     start_button |-> FALSE,        \* start_button.isEnabled()
     validate_button |-> FALSE,     \* validate_button.isEnabled()
     error_buttons |-> FALSE,       \* the retry and skip buttons are visible
     overlay |-> FALSE,             \* the floating overlay is shown
     overlay_validate |-> FALSE,    \* its validate button is enabled
     execution_thread |-> 0,        \* self.execution_thread, as an index
     threads |-> <<>>,              \* every TaskExecutionThread started
     signals |-> <<>>,              \* signals queued for the main thread
     files |-> <<>>,                \* eval_result.json of each run directory,
                                    \* with the results its validations got
     validations |-> 0]             \* results that validate_task has got

hist == <<spawned, failed, lastproc, slept, phase, run>>

-----------------------------------------------------------------------------
(* Bounds of the model                                                     *)

\* largest max_attempts a caller hands to the retry engine or to run_in_guest
MaxAttempts == 3
\* longest listing text is_running is applied to
MaxListLen == 4
\* largest probe budget (the `timeout` argument) of the login wait
MaxTimeout == 3
\* longest action list of a task handed to run_config
MaxActions == 3
\* the longest list of evaluator functions
MaxFuncs == 3
\* how many chrome_open_tabs and chrome_close_tabs actions address a window
MaxInvocations == 3
\* how many @register decorators are executed
MaxRegistrations == 4
\* how many TaskRunners are built
MaxRunners == 2
\* how many task runs the human starts
MaxRuns == 2
\* how many validations the human asks for
MaxValidations == 2

-----------------------------------------------------------------------------
(* Program constants                                                       *)

DefaultBaseDelay == 10
DefaultMaxDelay == 300
VmrunAttempts == 3
CopyAttempts == 3
StartAttempts == 3
RevertAttempts == 2
StopAttempts == 2
StartFromScratchAttempts == 3
ThreadAttempts == 3
EnsureDirAttempts == 2

-----------------------------------------------------------------------------
(* Text                                                                    *)

\* `sub in s` of Python, on sequences
Contains(s, sub) ==
    \E i \in 0..(Len(s) - Len(sub)) :
        \A j \in 1..Len(sub) : s[i + j] = sub[j]

Digits == <<"0", "1", "2", "3", "4", "5", "6", "7", "8", "9">>

\* str(n) for the small numbers that appear in messages
ToStr(n) == IF n \in 0..9 THEN Digits[n + 1] ELSE "N"

\* characters of paths and listings
Sep == "\\"
Slash == "/"
Space == " "
Chars == {"D", "d", "V", "v", Sep, Slash, Space}

IsSep(c) == c = Sep \/ c = Slash

\* str.lower, character by character
LowerChar(c) == IF c = "D" THEN "d" ELSE IF c = "V" THEN "v" ELSE c
Lower(s) == [i \in 1..Len(s) |-> LowerChar(s[i])]

\* s.replace(a, b) for single characters
Replace(s, a, b) == [i \in 1..Len(s) |-> IF s[i] = a THEN b ELSE s[i]]

\* str.strip
RECURSIVE LStrip(_)
LStrip(s) == IF s # <<>> /\ s[1] = Space THEN LStrip(Tail(s)) ELSE s
RECURSIVE RStrip(_)
RStrip(s) ==
    IF s # <<>> /\ s[Len(s)] = Space THEN RStrip(SubSeq(s, 1, Len(s) - 1)) ELSE s
Strip(s) == RStrip(LStrip(s))

\* os.path.normpath of Windows on a path without "." and "..": forward
\* slashes become backslashes, runs of separators collapse, a trailing
\* separator goes
RECURSIVE Collapse(_)
Collapse(s) ==
    IF Len(s) <= 1 THEN s
    ELSE IF s[1] = Sep /\ s[2] = Sep THEN Collapse(Tail(s))
    ELSE <<s[1]>> \o Collapse(Tail(s))
NormPath(p) ==
    LET c == Collapse(Replace(p, Slash, Sep))
    IN  IF Len(c) > 1 /\ c[Len(c)] = Sep THEN SubSeq(c, 1, Len(c) - 1) ELSE c

\* os.path.basename: what follows the last separator
RECURSIVE Basename(_)
Basename(p) ==
    IF \E i \in 1..Len(p) : IsSep(p[i]) THEN Basename(Tail(p)) ELSE p

\* The listing shows the VM: it holds the path as it is, with forward
\* slashes, in another letter case, or it holds the file name of the path.
Listed(vmx, listing) ==
    \/ Contains(listing, vmx)
    \/ Contains(listing, Replace(vmx, Sep, Slash))
    \/ \E i \in 0..(Len(listing) - Len(vmx)) :
          \A j \in 1..Len(vmx) : LowerChar(listing[i + j]) = LowerChar(vmx[j])
    \/ Contains(listing, Basename(vmx))

-----------------------------------------------------------------------------
(* Exceptions                                                              *)

Exception(type, msg) == [type |-> type, msg |-> msg]

NoException == Exception("None", <<"None">>)

\* isinstance(e, cls) for the exception classes that occur
IsInstance(e, cls) ==
    \/ cls = "Exception"
    \/ e.type = cls
    \/ cls = "VMOperationError" /\ e.type = "VMTimeoutError"

Val(v) == [kind |-> "val", val |-> v]
Exc(e) == [kind |-> "exc", exc |-> e]
NoRet == [kind |-> "none"]

-----------------------------------------------------------------------------
(* Frames                                                                  *)

Top == stack[Len(stack)]
Rest == SubSeq(stack, 1, Len(stack) - 1)

At(fn, pc) == stack # <<>> /\ Top.fn = fn /\ Top.pc = pc

\* the running frame calls `frame` and will resume at `pc`
Invoke(frame, pc) ==
    /\ stack' = Append(Append(Rest, [Top EXCEPT !.pc = pc]), frame)
    /\ ret' = NoRet

\* the running frame moves on within itself
Goto(frame) ==
    /\ stack' = Append(Rest, frame)
    /\ ret' = NoRet

Return(v) == stack' = Rest /\ ret' = Val(v)
Raise(e) == stack' = Rest /\ ret' = Exc(e)

OperationFrame(op, env) == [fn |-> op, pc |-> "start", env |-> env]

-----------------------------------------------------------------------------
(* The environment: external processes                                     *)

Kinds == {"operation", "runProgramInGuest", "list", "listSnapshots",
          "revertToSnapshot", "CopyFileFromHostToGuest",
          "CopyFileFromGuestToHost", "vmware", "start", "stop soft",
          "stop hard", "listProcessesInGuest"}

\* subprocess.run that ended: CompletedProcess(returncode, stdout, stderr)
Completed(rc, out, err) ==
    [how |-> "exit", returncode |-> rc, stdout |-> out, stderr |-> err]

\* subprocess.run that raised subprocess.TimeoutExpired
TimedOut == [how |-> "timeout"]

\* subprocess.run / Popen that raised FileNotFoundError (no such binary)
NotFound == [how |-> "notfound"]

NoProc == [kind |-> "none", out |-> [how |-> "none"]]

\* The history variables follow the commands a call of the controller is
\* about: its own command and, for the calls that are one retry loop around
\* one command, the backoff sleeps.
Observed(fn) ==
    IF fn = "retry_with_backoff" THEN {"operation", "sleep"}
    ELSE IF fn = "run_in_guest" THEN {"runProgramInGuest", "sleep"}
    ELSE IF fn = "copy_to_guest" THEN {"CopyFileFromHostToGuest"}
    ELSE IF fn = "copy_from_guest" THEN {"CopyFileFromGuestToHost"}
    ELSE IF fn = "is_running" THEN {"list"}
    ELSE IF fn = "can_revert_snapshot" THEN {"listSnapshots", "precheck"}
    ELSE IF fn = "start" THEN {"vmware", "is_running"}
    ELSE IF fn = "revert_snapshot"
    THEN {"listSnapshots", "revertToSnapshot", "precheck", "phase"}
    ELSE IF fn = "stop" THEN {"stop soft", "stop hard"}
    ELSE IF fn = "start_from_scratch" THEN {"vmware", "start", "is_running"}
    ELSE IF fn = "test_guest_access"
    THEN {"listProcessesInGuest", "sleep", "probe"}
    ELSE IF fn = "wait_for_user_login" THEN {"listProcessesInGuest", "probe"}
    ELSE IF fn = "prepare_for_task"
    THEN {"stop soft", "stop hard", "phase", "was_running"}
    ELSE IF fn = "run_config" THEN {"outcomes", "trace"}
    ELSE IF fn = "ensure_guest_dir" THEN {"runProgramInGuest"}
    ELSE {}

\* an external call of kind k ended with `out`; `raised` tells whether the
\* function that issued it raises because of it
Record(k, out, raised) ==
    IF k \in Observed(call.fn)
    THEN /\ spawned' = [spawned EXCEPT ![k] = @ + 1]
         /\ failed' = [failed EXCEPT ![k] = @ + (IF raised THEN 1 ELSE 0)]
         /\ lastproc' = [kind |-> k, out |-> out]
    ELSE UNCHANGED <<spawned, failed, lastproc>>

\* nothing has happened yet in the call
NoRun ==
    [since |-> <<>>,        \* is_running's answers since the last VM launch
     poll |-> [polled |-> FALSE, none |-> TRUE, code |-> 0],
                            \* what the last poll of the launcher process said
     probes |-> 0,          \* guest access probes made by the login wait
     probe_ok |-> 0,        \* how many of them answered true
     was_running |-> "unknown", \* is_running's answer to prepare_for_task
     prechecks |-> 0,       \* snapshot pre-checks made
     listing |-> [ok |-> FALSE, stdout |-> <<>>], \* what the last one was told
     prepared |-> FALSE,    \* prepare_for_task has returned normally
     gate |-> "none",       \* the login wait: "none", "invoked", "returned"
     dispatched |-> <<>>,   \* indices of the actions whose handler was invoked
                            \* by the current run_config
     returned |-> 0,        \* handlers that have ended in the current run_config
     outcomes |-> <<>>,     \* how they ended: what was returned, or "raised"
     trace |-> <<>>,        \* guest calls and host sleeps of the pipeline
     acted |-> FALSE,       \* some handler was invoked during the call
     evaluated |-> <<>>,    \* the function names handed to an evaluator
     ports |-> <<>>,        \* the debug ports derived for a Chrome window
     host_result |-> "none", \* what the runner found at host_result_file
     evaluator |-> "none",  \* the guest command of the runner: "ran" (it came
                            \* back with an exit code) or "failed"
     pipelines |-> 0,       \* runs of run_config started by the worker thread
     failed_at |-> 0,       \* index of the action that ended the one before
     asked |-> 0]           \* "Task Execution" errors put to the human

\* the state shared by a new worker thread and the main window
NoUi ==
    [should_retry |-> FALSE, should_skip |-> FALSE,
     pending |-> <<>>,      \* error_occurred signals queued for the main window
     buttons |-> FALSE,     \* the retry and skip buttons are visible
     decided |-> FALSE,     \* the human has pressed one since the last error
                            \* was surfaced
     finished |-> <<>>,     \* finished signals emitted by the worker
     done |-> 0]            \* how many of them the main window has handled

\* a backoff sleep was taken
Sleep ==
    slept' = IF "sleep" \in Observed(call.fn) THEN slept + 1 ELSE slept

-----------------------------------------------------------------------------
(* _retry_with_backoff                                                     *)

RECURSIVE Pow2(_)
Pow2(n) == IF n <= 0 THEN 1 ELSE 2 * Pow2(n - 1)

Min(a, b) == IF a <= b THEN a ELSE b

\* delay = min(base_delay * (2 ** (attempt - 1)), max_delay)
backoff_delay(base_delay, attempt, max_delay) ==
    Min(base_delay * Pow2(attempt - 1), max_delay)

\* jitter = random.uniform(0, 0.1 * delay): both ends of the interval
jitter_of(delay) == {0, delay \div 10}

\* `for attempt in range(1, max_attempts + 1)`: the loop body runs
in_range_short(attempt, max_attempts) == attempt < max_attempts
in_range(attempt, max_attempts) == attempt <= max_attempts

\* `if attempt < max_attempts`: another attempt follows this failure
retries_left(attempt, max_attempts) == attempt < max_attempts

\* `result = operation()` ... `return result`
retry_result_dropped(result) == "None"
retry_result(result) == result

\* f"{operation_name} failed after {max_attempts} attempts: {last_exception}"
aggregate_error(operation_name, max_attempts, last_exception) ==
    Exception("VMOperationError",
              operation_name \o <<"failed after", ToStr(max_attempts), "attempts:">>
                  \o last_exception.msg)

RetryFrame(operation, env, max_attempts, base_delay, max_delay, operation_name) ==
    [fn |-> "retry_with_backoff", pc |-> "loop",
     operation |-> operation, env |-> env,
     max_attempts |-> max_attempts, base_delay |-> base_delay,
     max_delay |-> max_delay, operation_name |-> operation_name,
     attempt |-> 1, last_exception |-> NoException, delay |-> 0]

retry_with_backoff ==
    \/ /\ At("retry_with_backoff", "loop")
       /\ IF in_range(Top.attempt, Top.max_attempts)
          THEN Invoke(OperationFrame(Top.operation, Top.env), "called")
          ELSE Raise(aggregate_error(Top.operation_name, Top.max_attempts,
                                     Top.last_exception))
       /\ UNCHANGED <<registry, guest, window, vmx_path, ui, call, hist>>
    \/ /\ At("retry_with_backoff", "called")
       /\ ret.kind = "val"
       /\ Return(retry_result(ret.val))
       /\ UNCHANGED <<registry, guest, window, vmx_path, ui, call, hist>>
    \/ /\ At("retry_with_backoff", "called")
       /\ ret.kind = "exc"
       /\ IF retries_left(Top.attempt, Top.max_attempts)
          THEN LET delay == backoff_delay(Top.base_delay, Top.attempt, Top.max_delay)
               IN  \E jitter \in jitter_of(delay) :
                      /\ Goto([Top EXCEPT !.last_exception = ret.exc,
                                          !.delay = delay,
                                          !.attempt = @ + 1,
                                          !.pc = "loop"])
                      /\ Sleep
          ELSE /\ Goto([Top EXCEPT !.last_exception = ret.exc,
                                   !.attempt = @ + 1,
                                   !.pc = "loop"])
               /\ slept' = slept
       /\ UNCHANGED <<registry, guest, window, vmx_path, ui, call, spawned, failed, lastproc, phase, run>>

-----------------------------------------------------------------------------
(* An operation handed to the retry engine by a caller: it returns a       *)
(* result or raises, as the caller's closure decides.                      *)

Results == {"r1", "r2"}
Failures == {Exception("RuntimeError", <<"e1">>),
             Exception("VMTimeoutError", <<"e2">>)}

operation ==
    /\ At("operation", "start")
    /\ \/ \E r \in Results :
            /\ Return(r)
            /\ Record("operation", Completed(0, <<r>>, <<>>), FALSE)
       \/ \E e \in Failures :
            /\ Raise(e)
            /\ Record("operation", Completed(1, <<>>, e.msg), TRUE)
    /\ UNCHANGED <<registry, guest, window, vmx_path, ui, call, slept, phase, run>>

-----------------------------------------------------------------------------
(* run_in_guest                                                            *)

\* the words vmrun and guest programs print that the controller looks for
ErrorMarkers == {"Error:", "[U+9519 U+8BEF]", "[U+5931 U+8D25]"}

GuestStdouts == {<<>>, <<"ok">>, <<"error">>, <<"x", "Error:", "y">>,
                 <<"[U+9519 U+8BEF]">>, <<"[U+5931 U+8D25]">>}
GuestStderrs == {<<>>, <<"Error:">>}
ExitCodes == {0, 1, 2}

GuestOutcomes ==
    {Completed(rc, out, err) : rc \in ExitCodes, out \in GuestStdouts,
                               err \in GuestStderrs}
        \cup {TimedOut, NotFound}

\* ("Error:" in stdout) or (... in stdout) or (... in stdout)
is_definitely_error_english(stdout) == Contains(stdout, <<"Error:">>)
is_definitely_error(stdout) == \E m \in ErrorMarkers : Contains(stdout, <<m>>)

\* what _run_operation does with the outcome of its subprocess.run
run_operation_result_strict(out) ==
    IF out.how = "timeout"
    THEN Exc(Exception("VMTimeoutError", <<"Guest program execution timed out">>))
    ELSE IF out.how = "notfound"
    THEN Exc(Exception("VMOperationError",
                       <<"Error running guest program:", "[WinError 2]">>))
    ELSE IF out.returncode = 0
    THEN Val(0)
    ELSE Exc(Exception("VMOperationError",
                       <<"Guest program failed with error:">> \o out.stdout))
run_operation_result(out) ==
    IF out.how = "timeout"
    THEN Exc(Exception("VMTimeoutError", <<"Guest program execution timed out">>))
    ELSE IF out.how = "notfound"
    THEN Exc(Exception("VMOperationError",
                       <<"Error running guest program:", "[WinError 2]">>))
    ELSE IF out.returncode = 0
    THEN Val(0)
    ELSE IF is_definitely_error(out.stdout)
    THEN Exc(Exception("VMOperationError",
                       <<"Guest program failed with error:">> \o out.stdout))
    ELSE Val(out.returncode)

run_operation ==
    /\ At("run_operation", "start")
    /\ \E out \in GuestOutcomes :
          LET r == run_operation_result(out)
          IN  /\ stack' = Rest
              /\ ret' = r
              /\ Record("runProgramInGuest", out, r.kind = "exc")
    /\ UNCHANGED <<registry, guest, window, vmx_path, ui, call, slept, phase, run>>

\* `except VMOperationError: return -1` around the retry engine
run_in_guest_reraise(e) == Exc(e)
run_in_guest_except(e) ==
    IF IsInstance(e, "VMOperationError") THEN Val(-1) ELSE Exc(e)

run_in_guest ==
    \/ /\ At("run_in_guest", "start")
       /\ Invoke(RetryFrame("run_operation", Top.env, Top.env.max_attempts,
                            DefaultBaseDelay, DefaultMaxDelay,
                            <<"run", "program_path">>), "called")
       /\ UNCHANGED <<registry, guest, window, vmx_path, ui, call, hist>>
    \/ /\ At("run_in_guest", "called")
       /\ stack' = Rest
       /\ ret' = IF ret.kind = "val" THEN ret ELSE run_in_guest_except(ret.exc)
       /\ UNCHANGED <<registry, guest, window, vmx_path, ui, call, hist>>

-----------------------------------------------------------------------------
(* ensure_guest_dir                                                        *)

\* _ensure_dir_operation: the exit code run_in_guest returns is dropped
ensure_dir_result(r) == IF r.kind = "exc" THEN r ELSE Val("True")

ensure_dir_operation ==
    \/ /\ At("ensure_dir_operation", "start")
       /\ Invoke([fn |-> "run_in_guest", pc |-> "start",
                  env |-> [max_attempts |-> 3, timeout |-> 60]], "ran")
       /\ UNCHANGED <<registry, guest, window, vmx_path, ui, call, hist>>
    \/ /\ At("ensure_dir_operation", "ran")
       /\ stack' = Rest
       /\ ret' = ensure_dir_result(ret)
       /\ UNCHANGED <<registry, guest, window, vmx_path, ui, call, hist>>

ensure_guest_dir ==
    \/ /\ At("ensure_guest_dir", "start")
       /\ Invoke(RetryFrame("ensure_dir_operation", [none |-> TRUE],
                            EnsureDirAttempts, DefaultBaseDelay, DefaultMaxDelay,
                            <<"create", "directory", "path">>), "called")
       /\ UNCHANGED <<registry, guest, window, vmx_path, ui, call, hist>>
    \/ /\ At("ensure_guest_dir", "called")
       /\ IF ret.kind = "val" THEN Return("None") ELSE Raise(ret.exc)
       /\ UNCHANGED <<registry, guest, window, vmx_path, ui, call, hist>>

-----------------------------------------------------------------------------
(* _run_vmrun                                                              *)

\* listings `vmrun list` prints in the runs of the controller
Listings == {<<>>, <<"D", Sep, "V">>, <<"d", Sep, "v">>, <<"v", Sep, "D">>}

\* what `vmrun listSnapshots` prints
SnapshotListings == {<<"clean">>, <<"base">>, <<"encrypted">>}

StdoutsOf(kind) ==
    IF kind = "list" THEN Listings
    ELSE IF kind = "listSnapshots" THEN SnapshotListings
    ELSE {<<>>}

VmrunOutcomes(kind) ==
    {Completed(0, out, <<>>) : out \in StdoutsOf(kind)}
        \cup {Completed(1, <<"Error:", "failed">>, <<>>), TimedOut, NotFound}

\* what _vmrun_operation does with the outcome of its subprocess.run
vmrun_operation_result(out) ==
    IF out.how = "timeout"
    THEN Exc(Exception("TimeoutExpired", <<"timed out">>))
    ELSE IF out.how = "notfound"
    THEN Exc(Exception("FileNotFoundError", <<"[WinError 2]">>))
    ELSE IF out.returncode # 0
    THEN Exc(Exception("VMOperationError", <<"vmrun failed:">> \o out.stderr))
    ELSE Val(out)

vmrun_operation ==
    /\ At("vmrun_operation", "start")
    /\ \E out \in VmrunOutcomes(Top.env.kind) :
          LET r == vmrun_operation_result(out)
          IN  /\ stack' = Rest
              /\ ret' = r
              /\ Record(Top.env.kind, out, r.kind = "exc")
              /\ phase' = IF "phase" \notin Observed(call.fn)
                          THEN phase
                          ELSE IF Top.env.kind = "revertToSnapshot" /\ r.kind = "val"
                          THEN "reverted"
                          ELSE IF /\ Top.env.kind = "list" /\ r.kind = "val"
                                  /\ phase = "launched"
                                  /\ Listed(vmx_path, out.stdout)
                          THEN "running"
                          ELSE phase
    /\ UNCHANGED <<registry, guest, window, vmx_path, ui, call, slept, run>>

\* `except VMTimeoutError: raise VMTimeoutError(...)` around the retry engine
run_vmrun_except(e) ==
    IF IsInstance(e, "VMTimeoutError")
    THEN Exc(Exception("VMTimeoutError", <<"vmrun command timed out">>))
    ELSE Exc(e)

\* operation_name = f"vmrun {' '.join(args[:2])}"
vmrun_name(kind) ==
    IF kind = "list" THEN <<"vmrun", "list">> ELSE <<"vmrun", "-T", "ws">>

RunVmrunFrame(kind, timeout) ==
    [fn |-> "run_vmrun", pc |-> "start", env |-> [kind |-> kind, timeout |-> timeout]]

run_vmrun ==
    \/ /\ At("run_vmrun", "start")
       /\ Invoke(RetryFrame("vmrun_operation", Top.env, VmrunAttempts,
                            DefaultBaseDelay, DefaultMaxDelay,
                            vmrun_name(Top.env.kind)), "called")
       /\ UNCHANGED <<registry, guest, window, vmx_path, ui, call, hist>>
    \/ /\ At("run_vmrun", "called")
       /\ stack' = Rest
       /\ ret' = IF ret.kind = "val" THEN ret ELSE run_vmrun_except(ret.exc)
       /\ UNCHANGED <<registry, guest, window, vmx_path, ui, call, hist>>

-----------------------------------------------------------------------------
(* copy_to_guest, copy_from_guest                                          *)

copy_operation ==
    \/ /\ At("copy_operation", "start")
       /\ Invoke(RunVmrunFrame(Top.env.kind, 60), "called")
       /\ UNCHANGED <<registry, guest, window, vmx_path, ui, call, hist>>
    \/ /\ At("copy_operation", "called")
       /\ stack' = Rest
       /\ ret' = IF ret.kind = "val" THEN Val(TRUE) ELSE ret
       /\ UNCHANGED <<registry, guest, window, vmx_path, ui, call, hist>>

\* the vmrun command of each copy direction
copy_command(fn) ==
    IF fn = "copy_to_guest" THEN "CopyFileFromHostToGuest"
    ELSE "CopyFileFromGuestToHost"

\* operation_name of each copy direction
copy_name(fn) ==
    IF fn = "copy_to_guest" THEN <<"copy to guest">> ELSE <<"copy from guest">>

copy_guest ==
    \/ /\ stack # <<>>
       /\ Top.fn \in {"copy_to_guest", "copy_from_guest"}
       /\ Top.pc = "start"
       /\ Invoke(RetryFrame("copy_operation", [kind |-> copy_command(Top.fn)],
                            CopyAttempts, DefaultBaseDelay, DefaultMaxDelay,
                            copy_name(Top.fn)), "called")
       /\ UNCHANGED <<registry, guest, window, vmx_path, ui, call, hist>>
    \/ /\ stack # <<>>
       /\ Top.fn \in {"copy_to_guest", "copy_from_guest"}
       /\ Top.pc = "called"
       /\ stack' = Rest
       /\ ret' = IF ret.kind = "val" THEN Val("None") ELSE ret
       /\ UNCHANGED <<registry, guest, window, vmx_path, ui, call, hist>>

-----------------------------------------------------------------------------
(* is_running                                                              *)

\* is_running once the listing command has succeeded with `stdout`
is_running_on_any(vmx, stdout) == Strip(stdout) # <<>>
is_running_on_exact_case(vmx, stdout) ==
    LET list == Strip(stdout)
        norm_vmx == NormPath(vmx)
    IN  \/ Contains(list, norm_vmx)
        \/ Contains(list, Replace(norm_vmx, Sep, Slash))
        \/ Contains(list, Basename(norm_vmx))
is_running_on(vmx, stdout) ==
    LET list == Strip(stdout)
        norm_vmx == NormPath(vmx)
        base == Basename(norm_vmx)
    IN  IF Contains(list, norm_vmx) \/ Contains(list, Replace(norm_vmx, Sep, Slash))
        THEN TRUE
        ELSE Contains(list, base) \/ Contains(Lower(list), Lower(norm_vmx))

\* `except Exception as e: ... return False`
is_running_except_running(e) == TRUE
is_running_except(e) == FALSE

is_running ==
    \/ /\ At("is_running", "start")
       /\ Invoke(RunVmrunFrame("list", 30), "called")
       /\ UNCHANGED <<registry, guest, window, vmx_path, ui, call, hist>>
    \/ /\ At("is_running", "called")
       /\ LET r == IF ret.kind = "val"
                   THEN is_running_on(vmx_path, ret.val.stdout)
                   ELSE is_running_except(ret.exc)
          IN  /\ Return(r)
              /\ run' = IF "is_running" \in Observed(call.fn)
                        THEN [run EXCEPT !.since = Append(@, r)]
                        ELSE run
       /\ UNCHANGED <<registry, guest, window, vmx_path, ui, call, spawned, failed, lastproc, slept, phase>>

-----------------------------------------------------------------------------
(* start                                                                   *)

\* Popen of the VMware launcher: the process object, or no such binary
LaunchOutcomes == {Completed(0, <<>>, <<>>), NotFound}

start_operation ==
    \/ /\ At("start_operation", "start")
       /\ \E out \in LaunchOutcomes :
             /\ Record("vmware", out, out.how = "notfound")
             /\ IF out.how = "notfound"
                THEN Raise(Exception("FileNotFoundError", <<"[WinError 2]">>))
                ELSE Invoke([fn |-> "is_running", pc |-> "start"], "called")
       /\ phase' = IF phase = "none" THEN phase ELSE "launched"
       /\ run' = [run EXCEPT !.since = <<>>]
       /\ UNCHANGED <<registry, guest, window, vmx_path, ui, call, slept>>
    \/ /\ At("start_operation", "called")
       /\ IF ret.kind = "val" /\ ret.val
          THEN Return(TRUE)
          ELSE Raise(Exception("VMOperationError", <<"VM failed to start">>))
       /\ UNCHANGED <<registry, guest, window, vmx_path, ui, call, hist>>

start ==
    \/ /\ At("start", "start")
       /\ Invoke(RetryFrame("start_operation", [fullscreen |-> Top.fullscreen],
                            StartAttempts, DefaultBaseDelay, DefaultMaxDelay,
                            <<"VM start">>), "called")
       /\ UNCHANGED <<registry, guest, window, vmx_path, ui, call, hist>>
    \/ /\ At("start", "called")
       /\ stack' = Rest
       /\ ret' = IF ret.kind = "val" THEN Val("None") ELSE ret
       /\ UNCHANGED <<registry, guest, window, vmx_path, ui, call, hist>>

-----------------------------------------------------------------------------
(* start_from_scratch                                                      *)

\* process.poll(): None while the launcher lives, else its exit code
Poll(none, code) == [polled |-> TRUE, none |-> none, code |-> code]
PollResults == {Poll(TRUE, 0), Poll(FALSE, 0), Poll(FALSE, 1)}

\* `if poll_result is not None and poll_result != 0`
launcher_failed_any_exit(poll_result) == ~poll_result.none
launcher_failed(poll_result) == ~poll_result.none /\ poll_result.code # 0

\* subprocess.run of `vmrun start` in normal mode
StartOutcomes ==
    {Completed(0, <<>>, <<>>), Completed(1, <<>>, <<"Error:", "failed">>),
     TimedOut, NotFound}

\* what the normal-mode branch does with the outcome of its subprocess.run
start_normal_result(out) ==
    IF out.how = "timeout"
    THEN Exc(Exception("VMTimeoutError", <<"VM start timed out after 30 seconds">>))
    ELSE IF out.how = "notfound"
    THEN Exc(Exception("VMOperationError", <<"VMware executable not found:", "vmrun">>))
    ELSE IF out.returncode # 0
    THEN Exc(Exception("VMOperationError", <<"Failed to start VM:">> \o out.stderr))
    ELSE Val(TRUE)

\* what the second look at the listing leads to: a warning or a status
\* line, and `return True` either way
second_check_strict(running) ==
    IF running THEN Val(TRUE)
    ELSE Exc(Exception("VMOperationError", <<"VM failed to start">>))
second_check_result(running) == Val(TRUE)

start_from_scratch_operation ==
    \/ /\ At("start_from_scratch_operation", "start")
       /\ Top.env.fullscreen
       /\ \E out \in LaunchOutcomes :
             /\ Record("vmware", out, out.how = "notfound")
             /\ IF out.how = "notfound"
                THEN Raise(Exception("VMOperationError",
                                     <<"VMware executable not found:", "vmware">>))
                ELSE Invoke([fn |-> "is_running", pc |-> "start"], "first")
       /\ run' = [run EXCEPT !.since = <<>>, !.poll = NoRun.poll]
       /\ UNCHANGED <<registry, guest, window, vmx_path, ui, call, slept, phase>>
    \/ /\ At("start_from_scratch_operation", "start")
       /\ ~Top.env.fullscreen
       /\ \E out \in StartOutcomes :
             LET r == start_normal_result(out)
             IN  /\ stack' = Rest
                 /\ ret' = r
                 /\ Record("start", out, r.kind = "exc")
       /\ UNCHANGED <<registry, guest, window, vmx_path, ui, call, slept, phase, run>>
    \/ /\ At("start_from_scratch_operation", "first")
       /\ IF ret.val
          THEN Return(TRUE) /\ run' = run
          ELSE \E poll_result \in PollResults :
                  /\ run' = [run EXCEPT !.poll = poll_result]
                  /\ IF launcher_failed(poll_result)
                     THEN Raise(Exception("VMOperationError",
                                          <<"Failed to start VM:", "stderr">>))
                     ELSE Invoke([fn |-> "is_running", pc |-> "start"], "second")
       /\ UNCHANGED <<registry, guest, window, vmx_path, ui, call, spawned, failed, lastproc, slept, phase>>
    \/ /\ At("start_from_scratch_operation", "second")
       /\ stack' = Rest
       /\ ret' = second_check_result(ret.val)
       /\ UNCHANGED <<registry, guest, window, vmx_path, ui, call, hist>>

start_from_scratch ==
    \/ /\ At("start_from_scratch", "start")
       /\ Invoke(RetryFrame("start_from_scratch_operation",
                            [fullscreen |-> Top.fullscreen],
                            StartFromScratchAttempts, DefaultBaseDelay,
                            DefaultMaxDelay, <<"VM start from scratch">>), "called")
       /\ UNCHANGED <<registry, guest, window, vmx_path, ui, call, hist>>
    \/ /\ At("start_from_scratch", "called")
       /\ stack' = Rest
       /\ ret' = IF ret.kind = "val" THEN Val("None") ELSE ret
       /\ UNCHANGED <<registry, guest, window, vmx_path, ui, call, hist>>

-----------------------------------------------------------------------------
(* can_revert_snapshot, revert_snapshot                                    *)

SnapshotNames == {<<"clean">>, <<"gone">>}

\* `snapshot_exists = name in stdout`, and `except Exception: return False`
can_revert_always(name, r) == TRUE
can_revert_result(name, r) ==
    IF r.kind = "val" THEN Contains(r.val.stdout, name) ELSE FALSE

can_revert_snapshot ==
    \/ /\ At("can_revert_snapshot", "start")
       /\ Invoke(RunVmrunFrame("listSnapshots", 10), "called")
       /\ UNCHANGED <<registry, guest, window, vmx_path, ui, call, hist>>
    \/ /\ At("can_revert_snapshot", "called")
       /\ Return(can_revert_result(Top.name, ret))
       /\ run' = IF "precheck" \in Observed(call.fn)
                 THEN [run EXCEPT
                         !.prechecks = @ + 1,
                         !.listing = IF ret.kind = "val"
                                     THEN [ok |-> TRUE, stdout |-> ret.val.stdout]
                                     ELSE [ok |-> FALSE, stdout |-> <<>>]]
                 ELSE run
       /\ UNCHANGED <<registry, guest, window, vmx_path, ui, call, spawned, failed, lastproc, slept, phase>>

revert_operation ==
    \/ /\ At("revert_operation", "start")
       /\ Invoke([fn |-> "can_revert_snapshot", pc |-> "start",
                  name |-> Top.env.name], "checked")
       /\ UNCHANGED <<registry, guest, window, vmx_path, ui, call, hist>>
    \/ /\ At("revert_operation", "checked")
       /\ IF ret.val
          THEN Invoke(RunVmrunFrame("revertToSnapshot", 120), "reverted")
          ELSE Raise(Exception("VMOperationError",
                               <<"Snapshot">> \o Top.env.name \o <<"not found in VM">>))
       /\ UNCHANGED <<registry, guest, window, vmx_path, ui, call, hist>>
    \/ /\ At("revert_operation", "reverted")
       /\ IF ret.kind = "val"
          THEN Invoke([fn |-> "start", pc |-> "start", fullscreen |-> TRUE], "started")
          ELSE Raise(ret.exc)
       /\ UNCHANGED <<registry, guest, window, vmx_path, ui, call, hist>>
    \/ /\ At("revert_operation", "started")
       /\ IF ret.kind = "val" THEN Return(TRUE) ELSE Raise(ret.exc)
       /\ UNCHANGED <<registry, guest, window, vmx_path, ui, call, hist>>

\* revert_snapshot hands on what the retry engine returned or raised
revert_snapshot_swallowed(r) == Val("None")
revert_snapshot_result(r) == IF r.kind = "val" THEN Val("None") ELSE r

revert_snapshot ==
    \/ /\ At("revert_snapshot", "start")
       /\ Invoke(RetryFrame("revert_operation", [name |-> Top.name],
                            RevertAttempts, DefaultBaseDelay, DefaultMaxDelay,
                            <<"snapshot revert">>), "called")
       /\ UNCHANGED <<registry, guest, window, vmx_path, ui, call, hist>>
    \/ /\ At("revert_snapshot", "called")
       /\ stack' = Rest
       /\ ret' = revert_snapshot_result(ret)
       /\ UNCHANGED <<registry, guest, window, vmx_path, ui, call, hist>>

-----------------------------------------------------------------------------
(* test_guest_access, _wait_for_user_login                                 *)

\* `return True` after the command, `except Exception: return False`
test_guest_access_result(r) == r.kind = "val"

test_guest_access ==
    \/ /\ At("test_guest_access", "start")
       /\ Invoke(RunVmrunFrame("listProcessesInGuest", 10), "called")
       /\ run' = IF "probe" \in Observed(call.fn)
                 THEN [run EXCEPT !.probes = @ + 1]
                 ELSE run
       /\ UNCHANGED <<registry, guest, window, vmx_path, ui, call, spawned, failed, lastproc, slept, phase>>
    \/ /\ At("test_guest_access", "called")
       /\ LET r == test_guest_access_result(ret)
          IN  /\ Return(r)
              /\ run' = IF "probe" \in Observed(call.fn) /\ r
                        THEN [run EXCEPT !.probe_ok = @ + 1]
                        ELSE run
       /\ UNCHANGED <<registry, guest, window, vmx_path, ui, call, spawned, failed, lastproc, slept, phase>>

\* `for elapsed in range(timeout)`: the loop body runs
login_in_range_long(elapsed, timeout) == elapsed <= timeout
login_in_range(elapsed, timeout) == elapsed < timeout

wait_for_user_login ==
    \/ /\ At("wait_for_user_login", "loop")
       /\ IF login_in_range(Top.elapsed, Top.timeout)
          THEN Invoke([fn |-> "test_guest_access", pc |-> "start"], "probed")
          ELSE Return(FALSE)
       /\ run' = [run EXCEPT !.gate = IF login_in_range(Top.elapsed, Top.timeout)
                                      THEN "invoked" ELSE "returned"]
       /\ UNCHANGED <<registry, guest, window, vmx_path, ui, call, spawned, failed, lastproc, slept, phase>>
    \/ /\ At("wait_for_user_login", "probed")
       /\ IF ret.val
          THEN Return(TRUE) /\ run' = [run EXCEPT !.gate = "returned"]
          ELSE Goto([Top EXCEPT !.elapsed = @ + 1, !.pc = "loop"]) /\ run' = run
       /\ UNCHANGED <<registry, guest, window, vmx_path, ui, call, spawned, failed, lastproc, slept, phase>>

-----------------------------------------------------------------------------
(* prepare_for_task (src/app/snapshot.py)                                  *)

\* `if not vm.is_running()`: the VM is started from scratch
needs_start_always(running) == TRUE
needs_start(running) == ~running

\* the snapshot prepare_for_task reverts to
CleanSnapshot == <<"clean">>

\* `if config_manager.config.use_snapshots: vm.revert_snapshot("clean")`
prepare_revert(frame) ==
    IF frame.use_snapshots
    THEN Invoke([fn |-> "revert_snapshot", pc |-> "start", name |-> CleanSnapshot],
                "reverted")
    ELSE Return("None")

prepare_for_task ==
    \/ /\ At("prepare_for_task", "start")
       /\ Invoke([fn |-> "is_running", pc |-> "start"], "checked")
       /\ UNCHANGED <<registry, guest, window, vmx_path, ui, call, hist>>
    \/ /\ At("prepare_for_task", "checked")
       /\ IF needs_start(ret.val)
          THEN Invoke([fn |-> "start_from_scratch", pc |-> "start",
                       fullscreen |-> Top.start_fullscreen], "started")
          ELSE prepare_revert(Top)
       /\ run' = IF "was_running" \in Observed(call.fn)
                 THEN [run EXCEPT !.was_running = IF ret.val THEN "yes" ELSE "no"]
                 ELSE run
       /\ UNCHANGED <<registry, guest, window, vmx_path, ui, call, spawned, failed, lastproc, slept, phase>>
    \/ /\ At("prepare_for_task", "started")
       /\ IF ret.kind = "val" THEN prepare_revert(Top) ELSE Raise(ret.exc)
       /\ UNCHANGED <<registry, guest, window, vmx_path, ui, call, hist>>
    \/ /\ At("prepare_for_task", "reverted")
       /\ IF ret.kind = "val" THEN Return("None") ELSE Raise(ret.exc)
       /\ UNCHANGED <<registry, guest, window, vmx_path, ui, call, hist>>

-----------------------------------------------------------------------------
(* TaskRunner.run_config (src/app/task_adapter.py)                         *)

\* the action types that have a handler registered with @register
RegisteredTypes ==
    {"launch", "sleep", "execute", "command", "chrome_open_tabs",
     "chrome_close_tabs", "download", "open", "activate_window", "download_old",
     "close_window", "set_env", "kill_process", "powershell", "shell",
     "copy_to_guest", "copy_from_guest", "write_file", "unzip"}

\* an action of task.config: its type and the parameters its handler reads
\* (`program` after the command formats of launch have been taken apart;
\* "" is a missing program)
Action(type, program, shell, seconds) ==
    [type |-> type, program |-> program, shell |-> shell, seconds |-> seconds]

LaunchAction(program, shell) == Action("launch", program, shell, 0)
SleepAction(seconds) == Action("sleep", "", FALSE, seconds)
OtherAction(type) == Action(type, "", FALSE, 0)

\* the actions of the tasks run here; "open" has a registered handler that
\* is not looked into, "mystery" has no handler
Actions ==
    {LaunchAction("notepad", FALSE), LaunchAction("chrome", FALSE),
     LaunchAction("dir", TRUE), LaunchAction("socat", FALSE),
     LaunchAction("", FALSE),
     SleepAction(2), OtherAction("open"), OtherAction("mystery")}

\* task.config as the list of its actions
Tasks(n) == UNION {[1..k -> Actions] : k \in 0..n}

\* the VM handle a pipeline runs against: the controller, or a stub that
\* stands in for it
Controller == "VMController"
StubVM == "StubVM"

\* `handler = self.action_handlers.get(action.type)`, else the generic one
handler_for(type) ==
    IF type = "launch" THEN "handle_launch"
    ELSE IF type = "sleep" THEN "handle_sleep"
    ELSE IF type \in RegisteredTypes THEN "handler"
    ELSE "handle_generic_action"

HandlerFns == {"handle_launch", "handle_sleep", "handler", "handle_generic_action"}

\* one delay for every type
action_delay_flat(type) == 20

\* action_delays.get(action.type, 2.0), in tenths of a second
action_delay(type) ==
    IF type = "launch" THEN 30
    ELSE IF type \in {"chrome_open_tabs", "execute"} THEN 20
    ELSE IF type \in {"chrome_close_tabs", "download", "activate_window"} THEN 10
    ELSE IF type = "sleep" THEN 0
    ELSE 20

\* enumerate(task.config): the index of the next action
next_index_skip(i) == i + 2
next_index(i) == i + 1

\* what run_config does with a handler's outcome: `except Exception: raise`
\* re-raises, and whatever the handler returned is not looked at
handled_swallowed(r) == "next"
handled(r) == IF r.kind = "exc" THEN "raise" ELSE "next"

\* `if i < len(task.config) - 1` and `if delay > 0`: time.sleep(delay)
paces_after_last(i, n, delay) == delay > 0
paces(i, n, delay) == i < n /\ delay > 0

\* what a run of the pipeline does on the host and asks of the VM handle:
\* "guest" is a call of vm.run_in_guest, "pace" the delay between two
\* actions, "sleep" a time.sleep of a handler; `index` is the action's
Event(what, index, program, time) ==
    [what |-> what, index |-> index, program |-> program, time |-> time]

Trace(events, e) ==
    IF "trace" \in Observed(call.fn) THEN Append(events, e) ELSE events

\* the outcomes of the handlers are followed in a call of run_config
Outcome(outcomes, v) ==
    IF "outcomes" \in Observed(call.fn) THEN Append(outcomes, v) ELSE outcomes

\* a loop that takes up where the last run of the pipeline failed
RunConfigFrame_resume(task, vm) ==
    [fn |-> "run_config", pc |-> "loop", task |-> task, vm |-> vm,
     i |-> IF run.dispatched = <<>> THEN 1 ELSE Len(run.dispatched),
     delays |-> <<>>]

\* `for i, action in enumerate(task.config)`: the loop starts at the first
\* action
RunConfigFrame(task, vm) ==
    [fn |-> "run_config", pc |-> "loop", task |-> task, vm |-> vm, i |-> 1,
     delays |-> <<>>]

run_config ==
    \/ /\ At("run_config", "loop")
       /\ IF Top.i <= Len(Top.task)
          THEN /\ Invoke([fn |-> handler_for(Top.task[Top.i].type), pc |-> "start",
                          action |-> Top.task[Top.i], index |-> Top.i,
                          vm |-> Top.vm], "handled")
               /\ run' = [run EXCEPT !.dispatched = Append(@, Top.i),
                                     !.acted = TRUE]
          ELSE /\ Return("None")
               /\ run' = run
       /\ UNCHANGED <<registry, guest, window, vmx_path, ui, call, spawned, failed, lastproc, slept, phase>>
    \/ /\ At("run_config", "handled")
       /\ LET delay == action_delay(Top.task[Top.i].type)
              pace == paces(Top.i, Len(Top.task), delay)
          IN  IF handled(ret) = "raise"
              THEN /\ Raise(ret.exc)
                   /\ run' = run
              ELSE /\ Goto([Top EXCEPT
                              !.i = next_index(@),
                              !.delays = IF pace THEN Append(@, delay) ELSE @,
                              !.pc = "loop"])
                   /\ run' = [run EXCEPT !.trace =
                                IF pace THEN Trace(@, Event("pace", Top.i, "", delay))
                                ELSE @]
       /\ UNCHANGED <<registry, guest, window, vmx_path, ui, call, spawned, failed, lastproc, slept, phase>>

\* program_mappings: the names that stand for a path in the guest
program_mappings(program) ==
    IF program = "notepad" THEN "C:\\Windows\\System32\\notepad.exe"
    ELSE IF program \in {"chrome", "google-chrome"}
    THEN "C:\\Program Files\\Google\\Chrome\\Application\\chrome.exe"
    ELSE program

PowerShell == "C:\\Windows\\System32\\WindowsPowerShell\\v1.0\\powershell.exe"

\* `"socat" in program.lower()`, `"chrome" in program.lower()` for the
\* programs that occur
is_socat(program) == program = "socat"
is_chrome(program) ==
    program = "C:\\Program Files\\Google\\Chrome\\Application\\chrome.exe"

\* vm.run_in_guest(...) as a handler calls it: the controller's own with its
\* default max_attempts and timeout, or the stub's
GuestCall(vm) ==
    IF vm = StubVM
    THEN [fn |-> "StubVM.run_in_guest", pc |-> "start"]
    ELSE [fn |-> "run_in_guest", pc |-> "start",
          env |-> [max_attempts |-> 3, timeout |-> 60]]

\* what the launch handler returns after vm.run_in_guest: True for every
\* exit code, False when the call raised
launch_result_reraise(r) == IF r.kind = "exc" THEN r ELSE Val("True")
launch_result(r) == IF r.kind = "exc" THEN Val("False") ELSE Val("True")

handle_launch ==
    \/ /\ At("handle_launch", "start")
       /\ LET program == Top.action.program
          IN  IF program = ""
              THEN /\ Return("False")
                   /\ run' = [run EXCEPT !.returned = @ + 1,
                                         !.outcomes = Outcome(@, "False")]
              ELSE IF is_socat(program)
              THEN /\ Return("True")
                   /\ run' = [run EXCEPT !.returned = @ + 1,
                                         !.outcomes = Outcome(@, "True")]
              ELSE /\ Invoke(GuestCall(Top.vm), "launched")
                   /\ run' = [run EXCEPT !.trace =
                                Trace(@, Event("guest", Top.index,
                                               IF Top.action.shell THEN PowerShell
                                               ELSE program_mappings(program), 0))]
       /\ UNCHANGED <<registry, guest, window, vmx_path, ui, call, spawned, failed, lastproc, slept, phase>>
    \/ /\ At("handle_launch", "launched")
       /\ LET r == launch_result(ret)
              waits == /\ ret.kind = "val"
                       /\ ret.val = 0
                       /\ is_chrome(program_mappings(Top.action.program))
          IN  /\ stack' = Rest
              /\ ret' = r
              /\ run' = [run EXCEPT
                           !.returned = @ + 1,
                           !.outcomes = Outcome(@, IF r.kind = "exc" THEN "raised"
                                                   ELSE r.val),
                           !.trace = IF waits THEN Trace(@, Event("sleep", Top.index, "", 30))
                                     ELSE @]
       /\ UNCHANGED <<registry, guest, window, vmx_path, ui, call, spawned, failed, lastproc, slept, phase>>

\* time.sleep(seconds) on the host, in tenths of a second
handle_sleep ==
    /\ At("handle_sleep", "start")
    /\ Return("None")
    /\ run' = [run EXCEPT !.returned = @ + 1,
                          !.outcomes = Outcome(@, "None"),
                          !.trace = Trace(@, Event("sleep", Top.index, "",
                                                   10 * Top.action.seconds))]
    /\ UNCHANGED <<registry, guest, window, vmx_path, ui, call, spawned, failed, lastproc, slept, phase>>

\* run_in_guest of a stub VM handle: it returns an exit code or raises
StubReturns == {0, 1}
StubFailures == {Exception("VMOperationError", <<"stub failed">>)}

stub_run_in_guest ==
    /\ At("StubVM.run_in_guest", "start")
    /\ \/ \E rc \in StubReturns : Return(rc)
       \/ \E e \in StubFailures : Raise(e)
    /\ UNCHANGED <<registry, guest, window, vmx_path, ui, call, hist>>

\* Any other action handler, registered or generic, as run_config sees it:
\* it returns something or it raises.
HandlerReturns == {"None", "False"}
HandlerFailures == {Exception("VMOperationError", <<"action failed">>)}

handler ==
    /\ stack # <<>>
    /\ Top.fn \in {"handler", "handle_generic_action"}
    /\ Top.pc = "start"
    /\ \/ \E v \in HandlerReturns :
             /\ Return(v)
             /\ run' = [run EXCEPT !.returned = @ + 1,
                                   !.outcomes = Outcome(@, v)]
       \/ \E e \in HandlerFailures :
             /\ Raise(e)
             /\ run' = [run EXCEPT !.returned = @ + 1,
                                   !.outcomes = Outcome(@, "raised")]
    /\ UNCHANGED <<registry, guest, window, vmx_path, ui, call, spawned, failed, lastproc, slept, phase>>

-----------------------------------------------------------------------------
(* TaskExecutionThread.run and the main window (src/app/gui.py)            *)

Thread == "TaskExecutionThread.run"

\* self.finished.emit(success, message), after which run() ends
Finish(success, message) ==
    /\ ui' = [ui EXCEPT !.finished =
                 Append(@, [success |-> success, message |-> message])]
    /\ stack' = Rest
    /\ ret' = Val("None")

\* `except Exception as e: ... self.finished.emit(False, error_msg)`
Fail_silent(e) == Finish(FALSE, <<"Task execution failed:">>)
Fail(e) == Finish(FALSE, <<"Task execution failed:">> \o e.msg)

\* self.error_occurred.emit(operation_name, f"Attempt {n} failed: {e}"), then
\* on to the reset of the latches; `e` stays bound until the except block is
\* left
Surface(operation_name, e, pc) ==
    /\ ui' = [ui EXCEPT !.pending =
                 Append(@, <<operation_name, "Attempt", ToStr(Top.attempt + 1),
                             "failed:">> \o e.msg),
                        !.decided = FALSE]
    /\ Goto([Top EXCEPT !.pc = pc, !.error = e])

\* `if attempt < max_attempts - 1`: the human is asked
asks_once_more(attempt) == attempt < ThreadAttempts
asks(attempt) == attempt < ThreadAttempts - 1

\* what a decision on a preparation error leads to: skip raises
\* "VM preparation skipped by user", retry goes round the loop
prep_decision_tolerant(should_skip) == IF should_skip THEN "proceed" ELSE "retry"
prep_decision(should_skip) == IF should_skip THEN "raise" ELSE "retry"

thread_prepare ==
    \/ /\ At(Thread, "prepare")
       /\ Invoke([fn |-> "prepare_for_task", pc |-> "start",
                  start_fullscreen |-> Top.fullscreen,
                  use_snapshots |-> Top.use_snapshots], "prepared")
       /\ UNCHANGED <<registry, guest, window, vmx_path, ui, call, hist>>
    \/ /\ At(Thread, "prepared")
       /\ IF ret.kind = "val"
          THEN /\ Goto([Top EXCEPT !.pc = "config", !.attempt = 0])
               /\ run' = [run EXCEPT !.prepared = TRUE]
               /\ ui' = ui
          ELSE /\ IF asks(Top.attempt)
                  THEN Surface("VM Preparation", ret.exc, "prepare_reset")
                  ELSE Fail(ret.exc)
               /\ run' = run
       /\ UNCHANGED <<registry, guest, window, vmx_path, call, spawned, failed, lastproc, slept, phase>>
    \/ /\ At(Thread, "prepare_reset")
       /\ ui' = [ui EXCEPT !.should_retry = FALSE, !.should_skip = FALSE]
       /\ Goto([Top EXCEPT !.pc = "prepare_wait"])
       /\ UNCHANGED <<registry, guest, window, vmx_path, call, hist>>
    \/ /\ At(Thread, "prepare_wait")
       /\ ui.should_retry \/ ui.should_skip
       /\ LET decision == prep_decision(ui.should_skip)
          IN  IF decision = "raise"
              THEN Fail(Exception("Exception", <<"VM preparation skipped by user">>))
              ELSE /\ Goto([Top EXCEPT
                              !.pc = IF decision = "retry" THEN "prepare" ELSE "config",
                              !.attempt = IF decision = "retry" THEN @ + 1 ELSE 0,
                              !.error = NoException])
                   /\ ui' = ui
       /\ UNCHANGED <<registry, guest, window, vmx_path, call, hist>>

\* what a decision on a pipeline error leads to: skip breaks out of the
\* attempts ("Task execution skipped by user"), retry goes round the loop
config_decision_retry(should_skip) == "retry"
config_decision(should_skip) == IF should_skip THEN "break" ELSE "retry"

thread_config ==
    \/ /\ At(Thread, "config")
       /\ Invoke(RunConfigFrame(Top.task, Controller), "configured")
       /\ run' = [run EXCEPT !.dispatched = <<>>, !.returned = 0, !.outcomes = <<>>,
                             !.pipelines = @ + 1,
                             !.failed_at = Len(run.dispatched)]
       /\ UNCHANGED <<registry, guest, window, vmx_path, ui, call, spawned, failed, lastproc, slept, phase>>
    \/ /\ At(Thread, "configured")
       /\ IF ret.kind = "val"
          THEN /\ Finish(TRUE, <<"Task started successfully">>)
               /\ run' = run
          ELSE IF asks(Top.attempt)
          THEN /\ Surface("Task Execution", ret.exc, "config_reset")
               /\ run' = [run EXCEPT !.asked = @ + 1]
          ELSE /\ Fail(ret.exc)
               /\ run' = run
       /\ UNCHANGED <<registry, guest, window, vmx_path, call, spawned, failed, lastproc, slept, phase>>
    \/ /\ At(Thread, "config_reset")
       /\ ui' = [ui EXCEPT !.should_retry = FALSE, !.should_skip = FALSE]
       /\ Goto([Top EXCEPT !.pc = "config_wait"])
       /\ UNCHANGED <<registry, guest, window, vmx_path, call, hist>>
    \/ /\ At(Thread, "config_wait")
       /\ ui.should_retry \/ ui.should_skip
       /\ IF config_decision(ui.should_skip) = "break"
          THEN Finish(TRUE, <<"Task started successfully">>)
          ELSE /\ Goto([Top EXCEPT !.pc = "config", !.attempt = @ + 1,
                                   !.error = NoException])
               /\ ui' = ui
       /\ UNCHANGED <<registry, guest, window, vmx_path, call, hist>>

\* the main window takes an error_occurred signal: the buttons appear
on_execution_error ==
    /\ ui.pending # <<>>
    /\ ui' = [ui EXCEPT !.pending = Tail(@), !.buttons = TRUE]
    /\ UNCHANGED <<registry, guest, window, vmx_path, stack, ret, call, hist>>

\* the human presses Retry
retry_operation ==
    /\ ui.buttons
    /\ ui' = [ui EXCEPT !.should_retry = TRUE, !.buttons = FALSE,
                        !.decided = TRUE]
    /\ UNCHANGED <<registry, guest, window, vmx_path, stack, ret, call, hist>>

\* the human presses Skip
skip_operation ==
    /\ ui.buttons
    /\ ui' = [ui EXCEPT !.should_skip = TRUE, !.buttons = FALSE,
                        !.decided = TRUE]
    /\ UNCHANGED <<registry, guest, window, vmx_path, stack, ret, call, hist>>

\* the main window takes a finished signal: the buttons go
on_task_execution_finished ==
    /\ ui.done < Len(ui.finished)
    /\ ui' = [ui EXCEPT !.done = @ + 1, !.buttons = FALSE]
    /\ UNCHANGED <<registry, guest, window, vmx_path, stack, ret, call, hist>>

-----------------------------------------------------------------------------
(* evaluate_task (src/evaluators/eval.py)                                  *)

\* evaluator.func is one function name or a list of them; evaluator.conj is
\* "or", "and", something else, or absent.  "None" is an entry of the list
\* that is not a string.
FuncNames == {"exact_match", "is_expected_tabs", "compare_table",
              "check_include_exclude", "infeasible", "no_such_function"}
ListedFuncs == {"exact_match", "is_expected_tabs", "None"}
Conjs == {"or", "and", "xor", "absent"}

FuncLists(n) == UNION {[1..k -> ListedFuncs] : k \in 0..n}

\* `evaluator.get('conj', 'and')`
conj_of(conj) == IF conj = "absent" THEN "and" ELSE conj

\* the evaluator a function name is routed to
evaluator_for(func) ==
    IF func = "exact_match" THEN "exact_match_evaluator"
    ELSE IF func \in {"is_expected_tabs", "enable_do_not_track", "compare_pdfs"}
    THEN "chrome_evaluator"
    ELSE IF func \in {"compare_table", "compare_docx_tables",
                      "compare_line_spacing", "compare_pptx_files"}
    THEN "file_evaluator"
    ELSE IF func \in {"check_include_exclude", "check_thunderbird_prefs",
                      "check_qt_bgcone", "is_extension_installed"}
    THEN "system_evaluator"
    ELSE "generic_evaluator"

Evaluators == {"exact_match_evaluator", "chrome_evaluator", "file_evaluator",
               "system_evaluator", "generic_evaluator"}

\* `any(r['passed'] for r in results)` under "or", `all(...)` otherwise
overall_passed_any(conj, results) ==
    \E j \in 1..Len(results) : results[j].passed
overall_passed(conj, results) ==
    IF conj = "or"
    THEN \E j \in 1..Len(results) : results[j].passed
    ELSE \A j \in 1..Len(results) : results[j].passed

\* the result of a multi-function evaluation
multi_function_result(conj, results) ==
    [passed |-> overall_passed(conj, results),
     details |-> [evaluator_type |-> "multi_function", conjunction |-> conj,
                  results |-> results, error |-> ""]]

\* the result of one evaluator, or of a failure of the dispatcher
single_result(passed, evaluator_type, error) ==
    [passed |-> passed,
     details |-> [evaluator_type |-> evaluator_type, conjunction |-> "",
                  results |-> <<>>, error |-> error]]

evaluate_task ==
    \/ /\ At("evaluate_task", "start")
       /\ IF Top.is_list /\ Top.k > Len(Top.func)
          THEN Return(multi_function_result(conj_of(Top.conj), Top.results))
          ELSE Invoke([fn |-> "evaluate_single_function", pc |-> "start",
                       func |-> Top.func[Top.k]], "evaluated")
       /\ UNCHANGED <<registry, guest, window, vmx_path, ui, call, hist>>
    \/ /\ At("evaluate_task", "evaluated")
       /\ IF ret.kind = "exc"
          THEN Return(single_result(FALSE, "dispatcher", ret.exc.msg[1]))
          ELSE IF Top.is_list
          THEN Goto([Top EXCEPT !.results = Append(@, ret.val), !.k = @ + 1,
                                !.pc = "start"])
          ELSE Return(ret.val)
       /\ UNCHANGED <<registry, guest, window, vmx_path, ui, call, hist>>

evaluate_single_function ==
    \/ /\ At("evaluate_single_function", "start")
       /\ IF Top.func = "None"
          THEN Raise(Exception("AttributeError", <<"no attribute 'startswith'">>))
          ELSE Invoke([fn |-> evaluator_for(Top.func), pc |-> "start"], "routed")
       /\ UNCHANGED <<registry, guest, window, vmx_path, ui, call, hist>>
    \/ /\ At("evaluate_single_function", "routed")
       /\ stack' = Rest
       /\ ret' = ret
       /\ UNCHANGED <<registry, guest, window, vmx_path, ui, call, hist>>

\* An evaluator looks at the guest and answers; its own failures come back
\* as a result that did not pass.
evaluator ==
    /\ stack # <<>>
    /\ Top.fn \in Evaluators
    /\ Top.pc = "start"
    /\ \/ \E passed \in BOOLEAN : Return(single_result(passed, Top.fn, ""))
       \/ Return(single_result(FALSE, Top.fn, "failed"))
    /\ run' = [run EXCEPT !.evaluated = Append(@, stack[Len(stack) - 1].func)]
    /\ UNCHANGED <<registry, guest, window, vmx_path, ui, call, spawned, failed, lastproc, slept, phase>>

-----------------------------------------------------------------------------
(* EvaluatorRunner.run (src/app/evaluator_runner.py)                       *)

Runner == "EvaluatorRunner.run"

\* What the host finds at host_result_file after the transfer: nothing, the
\* result eval.py wrote in the guest (passed or not), a damaged copy that is
\* not JSON, or JSON that is not a mapping.
HostResults == {"missing", "passed", "not passed", "not json", "not mapping"}

\* the result eval.py writes
evaluator_result(passed) ==
    [passed |-> passed, details |-> [error |-> <<>>, evaluator_type |-> "guest"]]

\* the result the runner makes up for a failure
runner_error(msg) ==
    [passed |-> FALSE, details |-> [error |-> msg, evaluator_type |-> "runner"]]

\* `if host_result_file.exists():` json.load and the log line that calls
\* result.get, else the "not found" result
read_result(found) ==
    IF found = "missing"
    THEN Val(runner_error(<<"Result file not found after copying from guest">>))
    ELSE IF found = "not json"
    THEN Exc(Exception("JSONDecodeError", <<"Expecting value">>))
    ELSE IF found = "not mapping"
    THEN Exc(Exception("AttributeError", <<"object has no attribute 'get'">>))
    ELSE Val(evaluator_result(found = "passed"))

\* `except Exception as e: return {"passed": False, "details": {...}}`
runner_except_reraise(e) == Exc(e)
runner_except(e) == Val(runner_error(e.msg))

\* the outcome of a step of the runner, as run() hands it on
runner_outcome(r) == IF r.kind = "exc" THEN runner_except(r.exc) ELSE r

\* what is at guest_result_file when the runner pulls it: the file eval.py
\* has just written ("fresh", if the guest command ran), the file of an
\* earlier evaluation ("stale", if there was one: the path depends on the
\* task id only and nothing removes the file), or nothing
guest_result_files(command, stale) ==
    (IF command = "ran" THEN {"fresh"} ELSE {})
        \cup (IF stale THEN {"stale"} ELSE {"none"})

\* what the host then finds at host_result_file; the file of an earlier
\* evaluation is a result as eval.py writes them
host_results(file) ==
    IF file = "fresh" THEN HostResults \ {"missing"}
    ELSE IF file = "stale" THEN {"passed", "not passed"}
    ELSE {"missing"}

\* `return_code = vm.run_in_guest(...)`: -1 when every attempt failed
evaluator_ran(return_code) == IF return_code = -1 THEN "failed" ELSE "ran"

\* writing the task file on the host may fail
HostFailures == {Exception("OSError", <<"[Errno 13] Permission denied">>)}

evaluator_runner ==
    \/ /\ At(Runner, "start")
       /\ \/ Invoke([fn |-> "copy_to_guest", pc |-> "start", name |-> <<>>], "copied")
          \/ \E e \in HostFailures :
                /\ stack' = Rest
                /\ ret' = runner_outcome(Exc(e))
       /\ UNCHANGED <<registry, guest, window, vmx_path, ui, call, hist>>
    \/ /\ At(Runner, "copied")
       /\ IF ret.kind = "exc"
          THEN /\ stack' = Rest
               /\ ret' = runner_outcome(ret)
          ELSE Invoke([fn |-> "run_in_guest", pc |-> "start",
                       env |-> [max_attempts |-> 2, timeout |-> 60]], "evaluated")
       /\ UNCHANGED <<registry, guest, window, vmx_path, ui, call, hist>>
    \/ /\ At(Runner, "evaluated")
       /\ IF ret.kind = "exc"
          THEN /\ stack' = Rest
               /\ ret' = runner_outcome(ret)
               /\ run' = run
          ELSE /\ Invoke([fn |-> "copy_from_guest", pc |-> "start", name |-> <<>>],
                         "transferred")
               /\ run' = [run EXCEPT !.evaluator = evaluator_ran(ret.val)]
       /\ UNCHANGED <<registry, guest, window, vmx_path, ui, call, spawned, failed, lastproc, slept, phase>>
    \/ /\ At(Runner, "transferred")
       /\ stack' = Rest
       /\ IF ret.kind = "exc"
          THEN /\ ret' = runner_outcome(ret)
               /\ run' = run
          ELSE \E file \in guest_result_files(run.evaluator, call.stale) :
               \E found \in host_results(file) :
                  /\ ret' = runner_outcome(read_result(found))
                  /\ run' = [run EXCEPT !.host_result = found]
       /\ UNCHANGED <<registry, guest, window, vmx_path, ui, call, spawned, failed, lastproc, slept, phase>>

-----------------------------------------------------------------------------
(* stop                                                                    *)

stop_operation ==
    \/ /\ At("stop_operation", "start")
       /\ Invoke(RunVmrunFrame("stop soft", 60), "soft")
       /\ UNCHANGED <<registry, guest, window, vmx_path, ui, call, hist>>
    \/ /\ At("stop_operation", "soft")
       /\ IF ret.kind = "val"
          THEN Return(TRUE)
          ELSE IF IsInstance(ret.exc, "VMOperationError")
          THEN Invoke(RunVmrunFrame("stop hard", 30), "hard")
          ELSE Raise(ret.exc)
       /\ UNCHANGED <<registry, guest, window, vmx_path, ui, call, hist>>
    \/ /\ At("stop_operation", "hard")
       /\ IF ret.kind = "val" THEN Return(TRUE) ELSE Raise(ret.exc)
       /\ UNCHANGED <<registry, guest, window, vmx_path, ui, call, hist>>

\* `except VMOperationError: logger.warning(...)` around the retry engine
stop_except_reraise(e) == Exc(e)
stop_except(e) ==
    IF IsInstance(e, "VMOperationError") THEN Val("None") ELSE Exc(e)

stop ==
    \/ /\ At("stop", "start")
       /\ Invoke(RetryFrame("stop_operation", [none |-> TRUE], StopAttempts,
                            DefaultBaseDelay, DefaultMaxDelay, <<"VM stop">>),
                 "called")
       /\ UNCHANGED <<registry, guest, window, vmx_path, ui, call, hist>>
    \/ /\ At("stop", "called")
       /\ stack' = Rest
       /\ ret' = IF ret.kind = "val" THEN Val("None") ELSE stop_except(ret.exc)
       /\ UNCHANGED <<registry, guest, window, vmx_path, ui, call, hist>>

-----------------------------------------------------------------------------
(* The callers of the controller                                           *)

BaseDelays == {DefaultBaseDelay, 25}
MaxDelays == {30, DefaultMaxDelay}

NoCall == [fn |-> "none", max_attempts |-> 0, base_delay |-> 0, max_delay |-> 0,
           name |-> <<>>]

\* a call of the login wait with its probe budget
WaitCall(timeout) ==
    [fn |-> "wait_for_user_login", max_attempts |-> 0, base_delay |-> 0,
     max_delay |-> 0, name |-> <<>>, timeout |-> timeout]

\* a call that runs a task: its action list and the settings
TaskCall(fn, task, fullscreen, use_snapshots) ==
    [fn |-> fn, max_attempts |-> 0, base_delay |-> 0, max_delay |-> 0,
     name |-> <<>>, task |-> task, fullscreen |-> fullscreen,
     use_snapshots |-> use_snapshots]

\* a call of the evaluator's dispatcher: evaluator.func and evaluator.conj
EvalCall(is_list, func, conj) ==
    [fn |-> "evaluate_task", max_attempts |-> 0, base_delay |-> 0, max_delay |-> 0,
     name |-> <<>>, is_list |-> is_list, func |-> func, conj |-> conj]

\* the tasks started from the main window
ThreadTasks ==
    {<<>>,
     <<OtherAction("mystery"), LaunchAction("notepad", FALSE)>>,
     <<SleepAction(2), OtherAction("mystery")>>}

\* a call whose arguments are settings: fullscreen, use_snapshots
SettingsCall(fn, fullscreen, use_snapshots) ==
    [fn |-> fn, max_attempts |-> 0, base_delay |-> 0, max_delay |-> 0,
     name |-> <<>>, fullscreen |-> fullscreen, use_snapshots |-> use_snapshots]

\* a call of prepare_for_task under a configuration: start_fullscreen,
\* use_snapshots and snapshot_name (src/app/config.py)
PrepareCall(fullscreen, use_snapshots, snapshot_name) ==
    [fn |-> "prepare_for_task", max_attempts |-> 0, base_delay |-> 0,
     max_delay |-> 0, name |-> <<>>, fullscreen |-> fullscreen,
     use_snapshots |-> use_snapshots, snapshot_name |-> snapshot_name]

\* a call of the evaluator bridge; `stale` tells whether an earlier
\* evaluation of the same task id has left its result file in the guest
RunnerCall(stale) ==
    [fn |-> "EvaluatorRunner.run", max_attempts |-> 0, base_delay |-> 0,
     max_delay |-> 0, name |-> <<>>, stale |-> stale]

CallOf(fn, n, b, m, name) ==
    [fn |-> fn, max_attempts |-> n, base_delay |-> b, max_delay |-> m, name |-> name]

Calls ==
    {CallOf("retry_with_backoff", n, b, m, <<"operation">>) :
        n \in 1..MaxAttempts, b \in BaseDelays, m \in MaxDelays}
    \cup {CallOf("run_in_guest", n, 0, 0, <<>>) : n \in 1..MaxAttempts}
    \cup {CallOf(fn, 0, 0, 0, <<>>) :
            fn \in {"copy_to_guest", "copy_from_guest", "is_running", "start",
                    "stop", "ensure_guest_dir"}}
    \cup {CallOf(fn, 0, 0, 0, name) :
            fn \in {"can_revert_snapshot", "revert_snapshot"}, name \in SnapshotNames}
    \cup {SettingsCall("start_from_scratch", f, FALSE) : f \in BOOLEAN}
    \cup {CallOf("test_guest_access", 0, 0, 0, <<>>)}
    \cup {WaitCall(t) : t \in 0..MaxTimeout}
    \cup {TaskCall("run_config", t, TRUE, TRUE) : t \in Tasks(MaxActions)}
    \cup {TaskCall(Thread, t, f, u) :
            t \in ThreadTasks, f \in BOOLEAN, u \in BOOLEAN}
    \cup {PrepareCall(f, u, n) :
            f \in BOOLEAN, u \in BOOLEAN, n \in SnapshotNames}
    \cup {EvalCall(TRUE, l, c) : l \in FuncLists(MaxFuncs), c \in Conjs}
    \cup {EvalCall(FALSE, <<f>>, c) : f \in FuncNames, c \in Conjs}
    \cup {RunnerCall(stale) : stale \in BOOLEAN}

\* the frame a call of the controller starts with
EntryFrame(c) ==
    IF c.fn = "retry_with_backoff"
    THEN RetryFrame("operation", [none |-> TRUE], c.max_attempts, c.base_delay,
                    c.max_delay, c.name)
    ELSE IF c.fn = "run_in_guest"
    THEN [fn |-> c.fn, pc |-> "start",
          env |-> [max_attempts |-> c.max_attempts, timeout |-> 60]]
    ELSE IF c.fn = "start"
    THEN [fn |-> c.fn, pc |-> "start", fullscreen |-> TRUE]
    ELSE IF c.fn = "start_from_scratch"
    THEN [fn |-> c.fn, pc |-> "start", fullscreen |-> c.fullscreen]
    ELSE IF c.fn = "run_config"
    THEN RunConfigFrame(c.task, StubVM)
    ELSE IF c.fn = "evaluate_task"
    THEN [fn |-> c.fn, pc |-> "start", is_list |-> c.is_list, func |-> c.func,
          conj |-> c.conj, k |-> 1, results |-> <<>>]
    ELSE IF c.fn = Thread
    THEN [fn |-> c.fn, pc |-> "prepare", attempt |-> 0, task |-> c.task,
          fullscreen |-> c.fullscreen, use_snapshots |-> c.use_snapshots,
          error |-> NoException]
    ELSE IF c.fn = "wait_for_user_login"
    THEN [fn |-> c.fn, pc |-> "loop", timeout |-> c.timeout, elapsed |-> 0]
    ELSE IF c.fn = "prepare_for_task"
    THEN [fn |-> c.fn, pc |-> "start", start_fullscreen |-> c.fullscreen,
          use_snapshots |-> c.use_snapshots]
    ELSE [fn |-> c.fn, pc |-> "start", name |-> c.name]

\* nothing has happened yet in the call
NoneYet == [k \in Kinds |-> 0]

\* A behaviour follows one call of the program from its start to its end:
\* every call starts from a fresh history, so a second call would only
\* repeat what a first one can do.
Call ==
    /\ stack = <<>>
    /\ call = NoCall
    /\ \E c \in Calls :
          /\ call' = c
          /\ stack' = <<EntryFrame(c)>>
    /\ ret' = NoRet
    /\ spawned' = NoneYet
    /\ failed' = NoneYet
    /\ lastproc' = NoProc
    /\ slept' = 0
    /\ phase' = "none"
    /\ run' = NoRun
    /\ ui' = NoUi
    /\ UNCHANGED <<registry, guest, window, vmx_path>>

\* the vmx_path of the configuration file
ConfiguredPaths == {<<"D", Sep, "V">>, <<"D", Slash, "V">>}

Init ==
    /\ vmx_path \in {NormPath(p) : p \in ConfiguredPaths}
    /\ stack = <<>>
    /\ ret = NoRet
    /\ call = NoCall
    /\ spawned = NoneYet
    /\ failed = NoneYet
    /\ lastproc = NoProc
    /\ slept = 0
    /\ phase = "none"
    /\ run = NoRun
    /\ ui = NoUi
    /\ window = NoWindow
    /\ registry = NoRegistry
    /\ guest = NoGuest

Next ==
    \/ Call
    \/ retry_with_backoff
    \/ operation
    \/ run_in_guest
    \/ run_operation
    \/ ensure_guest_dir
    \/ ensure_dir_operation
    \/ run_vmrun
    \/ vmrun_operation
    \/ copy_guest
    \/ copy_operation
    \/ is_running
    \/ start
    \/ start_operation
    \/ can_revert_snapshot
    \/ revert_snapshot
    \/ revert_operation
    \/ stop
    \/ stop_operation
    \/ start_from_scratch
    \/ start_from_scratch_operation
    \/ prepare_for_task
    \/ test_guest_access
    \/ wait_for_user_login
    \/ run_config
    \/ handler
    \/ handle_launch
    \/ handle_sleep
    \/ stub_run_in_guest
    \/ evaluate_task
    \/ evaluate_single_function
    \/ evaluator
    \/ evaluator_runner
    \/ thread_prepare
    \/ thread_config
    \/ on_execution_error
    \/ retry_operation
    \/ skip_operation
    \/ on_task_execution_finished

Spec == Init /\ [][Next]_vars

\* a call of the controller has ended
Done(fn) == stack = <<>> /\ call.fn = fn

-----------------------------------------------------------------------------
(* is_running on every short listing text                                  *)

\* all texts of at most n characters
Texts(n) == UNION {[1..k -> Chars] : k \in 0..n}

\* the vmx_path values of the configuration file is_running is tried with
ListingPaths == {<<"D", Sep, "V">>, <<"D", Slash, "V">>, <<"d", Sep, "V">>, <<"V">>}

InitListing ==
    /\ vmx_path \in {NormPath(p) : p \in ListingPaths}
    /\ stack = <<>>
    /\ ret = NoRet
    /\ call = NoCall
    /\ spawned = NoneYet
    /\ failed = NoneYet
    /\ lastproc = NoProc
    /\ slept = 0
    /\ phase = "none"
    /\ run = NoRun
    /\ ui = NoUi
    /\ window = NoWindow
    /\ registry = NoRegistry
    /\ guest = NoGuest

\* is_running when `vmrun list` succeeds at once and prints `stdout`
is_running_listing ==
    /\ stack = <<>>
    /\ call = NoCall
    /\ \E stdout \in Texts(MaxListLen) :
          /\ lastproc' = [kind |-> "list", out |-> Completed(0, stdout, <<>>)]
          /\ ret' = Val(is_running_on(vmx_path, stdout))
    /\ call' = CallOf("is_running", 0, 0, 0, <<>>)
    /\ spawned' = [NoneYet EXCEPT !["list"] = 1]
    /\ UNCHANGED <<registry, guest, window, vmx_path, stack, failed, slept, phase, run, ui>>

SpecListing == InitListing /\ [][is_running_listing]_vars

-----------------------------------------------------------------------------
(* The debug port of a Chrome window (src/app/task_adapter.py)             *)

\* hashlib.md5: a 32-bit word is <<high 16 bits, low 16 bits>>
RECURSIVE And16(_, _)
And16(a, b) == IF a = 0 \/ b = 0 THEN 0
               ELSE (a % 2) * (b % 2) + 2 * And16(a \div 2, b \div 2)
RECURSIVE Or16(_, _)
Or16(a, b) == IF a = 0 THEN b ELSE IF b = 0 THEN a
              ELSE (IF a % 2 = 1 \/ b % 2 = 1 THEN 1 ELSE 0) + 2 * Or16(a \div 2, b \div 2)
RECURSIVE Xor16(_, _)
Xor16(a, b) == IF a = 0 THEN b ELSE IF b = 0 THEN a
               ELSE ((a + b) % 2) + 2 * Xor16(a \div 2, b \div 2)
And32(u, v) == <<And16(u[1], v[1]), And16(u[2], v[2])>>
Or32(u, v) == <<Or16(u[1], v[1]), Or16(u[2], v[2])>>
Xor32(u, v) == <<Xor16(u[1], v[1]), Xor16(u[2], v[2])>>
Not32(u) == <<65535 - u[1], 65535 - u[2]>>
Add32(u, v) == LET lo == u[2] + v[2]
               IN  <<(u[1] + v[1] + (lo \div 65536)) % 65536, lo % 65536>>
Rotl16(u, t) ==
    IF t = 0 THEN u
    ELSE <<((u[1] * Pow2(t)) % 65536) + (u[2] \div Pow2(16 - t)),
           ((u[2] * Pow2(t)) % 65536) + (u[1] \div Pow2(16 - t))>>
Rotl32(u, s) == IF s >= 16 THEN Rotl16(<<u[2], u[1]>>, s - 16) ELSE Rotl16(u, s)

\* floor(2^32 * abs(sin(i + 1))) and the shift of each round
Md5K == <<<<55146, 42104>>, <<59591, 46934>>, <<9248, 28891>>, <<49597, 52974>>,
      <<62844, 4015>>, <<18311, 50730>>, <<43056, 17939>>, <<64838, 38145>>,
      <<27008, 39128>>, <<35652, 63407>>, <<65535, 23473>>, <<35164, 55230>>,
      <<27536, 4386>>, <<64920, 29075>>, <<42617, 17294>>, <<18868, 2081>>,
      <<63006, 9570>>, <<49216, 45888>>, <<9822, 23121>>, <<59830, 51114>>,
      <<54831, 4189>>, <<580, 5203>>, <<55457, 59009>>, <<59347, 64456>>,
      <<8673, 52710>>, <<49975, 2006>>, <<62677, 3463>>, <<17754, 5357>>,
      <<43491, 59653>>, <<64751, 41976>>, <<26479, 729>>, <<36138, 19594>>,
      <<65530, 14658>>, <<34673, 63105>>, <<28061, 24866>>, <<64997, 14348>>,
      <<42174, 59972>>, <<19422, 53161>>, <<63163, 19296>>, <<48831, 48240>>,
      <<10395, 32454>>, <<60065, 10234>>, <<54511, 12421>>, <<1160, 7429>>,
      <<55764, 53305>>, <<59099, 39397>>, <<8098, 31992>>, <<50348, 22117>>,
      <<62505, 8772>>, <<17194, 65431>>, <<43924, 9127>>, <<64659, 41017>>,
      <<25947, 22979>>, <<36620, 52370>>, <<65519, 62589>>, <<34180, 24017>>,
      <<28584, 32335>>, <<65068, 59104>>, <<41729, 17172>>, <<19976, 4513>>,
      <<63315, 32386>>, <<48442, 62005>>, <<10967, 53947>>, <<60294, 54161>>>>
Md5S == <<7, 12, 17, 22, 7, 12, 17, 22, 7, 12, 17, 22, 7, 12, 17, 22, 5, 9, 14, 20, 5, 9, 14, 20, 5, 9, 14, 20, 5, 9, 14, 20, 4, 11, 16, 23, 4, 11, 16, 23, 4, 11, 16, 23, 4, 11, 16, 23, 6, 10, 15, 21, 6, 10, 15, 21, 6, 10, 15, 21, 6, 10, 15, 21>>

\* tag.encode("utf-8") for the characters that occur
Utf8(c) ==
    IF c = "e-acute" THEN <<195, 169>>
    ELSE LET abc == <<"a","b","c","d","e","f","g","h","i","j","k","l","m",
                      "n","o","p","q","r","s","t","u","v","w","x","y","z">>
         IN  <<96 + CHOOSE j \in 1..26 : abc[j] = c>>
RECURSIVE Encode(_)
Encode(tag) == IF tag = <<>> THEN <<>> ELSE Utf8(Head(tag)) \o Encode(Tail(tag))

\* one padded block of a message shorter than 56 bytes
Block(bytes) ==
    LET n == Len(bytes)
        padded == [j \in 1..64 |->
                     IF j <= n THEN bytes[j]
                     ELSE IF j = n + 1 THEN 128
                     ELSE IF j = 57 THEN (8 * n) % 256
                     ELSE IF j = 58 THEN (8 * n) \div 256
                     ELSE 0]
    IN  [w \in 1..16 |-> <<padded[4 * w - 1] + 256 * padded[4 * w],
                            padded[4 * w - 3] + 256 * padded[4 * w - 2]>>]

Step(i, st, M) ==
    LET A == st[1]  B == st[2]  C == st[3]  D == st[4]
        F == IF i < 16 THEN Or32(And32(B, C), And32(Not32(B), D))
             ELSE IF i < 32 THEN Or32(And32(D, B), And32(Not32(D), C))
             ELSE IF i < 48 THEN Xor32(Xor32(B, C), D)
             ELSE Xor32(C, Or32(B, Not32(D)))
        g == IF i < 16 THEN i
             ELSE IF i < 32 THEN (5 * i + 1) % 16
             ELSE IF i < 48 THEN (3 * i + 5) % 16
             ELSE (7 * i) % 16
        sum == Add32(Add32(Add32(F, A), Md5K[i + 1]), M[g + 1])
    IN  <<D, Add32(B, Rotl32(sum, Md5S[i + 1])), B, C>>

\* the rounds lo .. hi - 1, the first half before the second
RECURSIVE Rounds(_, _, _, _)
Rounds(lo, hi, st, M) ==
    IF hi = lo + 1 THEN Step(lo, st, M)
    ELSE LET mid == (lo + hi) \div 2
             half == Rounds(lo, mid, st, M)
         IN  IF Len(half) = 4 THEN Rounds(mid, hi, half, M) ELSE st

Md5Init == <<<<26437, 8961>>, <<61389, 43913>>, <<39098, 56574>>, <<4146, 21622>>>>

\* the 16 bytes of the digest
Digest(bytes) ==
    LET st == Rounds(0, 64, Md5Init, Block(bytes))
        w == [j \in 1..4 |-> Add32(Md5Init[j], st[j])]
    IN  [j \in 1..16 |->
           LET word == w[(j - 1) \div 4 + 1]
               k == (j - 1) % 4
           IN  IF k = 0 THEN word[2] % 256
               ELSE IF k = 1 THEN word[2] \div 256
               ELSE IF k = 2 THEN word[1] % 256
               ELSE word[1] \div 256]

\* int(hexdigest, 16) % m
RECURSIVE ModOf(_, _, _)
ModOf(bytes, m, acc) ==
    IF bytes = <<>> THEN acc ELSE ModOf(Tail(bytes), m, (acc * 256 + Head(bytes)) % m)

\* _stable_port_from_tag of handle_chrome_open_tabs
open_stable_port_from_tag(tag) == 9222 + ModOf(Digest(Encode(tag)), 2000, 0)

\* _stable_port_from_tag of handle_chrome_close_tabs
stable_port_unbounded(tag) == 9222 + ModOf(Digest(Encode(tag)), 20000, 0)
close_stable_port_from_tag(tag) == 9222 + ModOf(Digest(Encode(tag)), 2000, 0)

\* `action.parameters.get("debug_port") or _stable_port_from_tag(window_tag)`;
\* 0 is a debug_port that is absent
open_port(debug_port, window_tag) ==
    IF debug_port # 0 THEN debug_port ELSE open_stable_port_from_tag(window_tag)
close_port(debug_port, window_tag) ==
    IF debug_port # 0 THEN debug_port ELSE close_stable_port_from_tag(window_tag)

\* the window tags and debug ports of the actions; "osworld" is the tag of
\* an action that names none
DefaultTag == <<"o", "s", "w", "o", "r", "l", "d">>
WindowTags == {DefaultTag, <<>>, <<"a">>, <<"b">>, <<"a", "b">>, <<"e-acute">>}
DebugPorts == {0, 9333}

PortCall(window_tag, debug_port) ==
    [fn |-> "chrome_tabs", max_attempts |-> 0, base_delay |-> 0, max_delay |-> 0,
     name |-> <<>>, window_tag |-> window_tag, debug_port |-> debug_port]

InitPort ==
    /\ vmx_path \in {NormPath(p) : p \in {<<"D", Sep, "V">>}}
    /\ stack = <<>>
    /\ ret = NoRet
    /\ call \in {PortCall(t, d) : t \in WindowTags, d \in DebugPorts}
    /\ spawned = [k \in Kinds |-> 0]
    /\ failed = [k \in Kinds |-> 0]
    /\ lastproc = NoProc
    /\ slept = 0
    /\ phase = "none"
    /\ run = NoRun
    /\ ui = NoUi
    /\ window = NoWindow
    /\ registry = NoRegistry
    /\ guest = NoGuest

\* one more chrome_open_tabs action of the window derives its port
chrome_open_tabs_port ==
    /\ Len(run.ports) < MaxInvocations
    /\ run' = [run EXCEPT !.ports =
                  Append(@, [handler |-> "chrome_open_tabs",
                             port |-> open_port(call.debug_port, call.window_tag)])]
    /\ UNCHANGED <<registry, guest, window, vmx_path, stack, ret, call, ui, spawned, failed, lastproc,
                   slept, phase>>

\* one more chrome_close_tabs action of the window derives its port
chrome_close_tabs_port ==
    /\ Len(run.ports) < MaxInvocations
    /\ run' = [run EXCEPT !.ports =
                  Append(@, [handler |-> "chrome_close_tabs",
                             port |-> close_port(call.debug_port, call.window_tag)])]
    /\ UNCHANGED <<registry, guest, window, vmx_path, stack, ret, call, ui, spawned, failed, lastproc,
                   slept, phase>>

NextPort == chrome_open_tabs_port \/ chrome_close_tabs_port

SpecPort == InitPort /\ [][NextPort]_vars

-----------------------------------------------------------------------------
(* The main window (src/app/gui.py): task selection, start, validation     *)

\* the tasks of the list
TaskIds == {"t1", "t2"}

\* f"{timestamp}_{task.id}": the timestamp counts seconds
RunId(time, task) == <<ToStr(time), task>>

\* the time of the last start, in seconds: two starts are at least a second
\* apart
Clock == Len(window.threads)

\* a worker thread as the main window sees it: "running", "asked" (it has
\* emitted error_occurred), "waiting" (it has reset its latches and polls
\* them), "finished" (it has emitted finished)
NewThread(task, run_id) ==
    [task |-> task, run_id |-> run_id, state |-> "running",
     should_retry |-> FALSE, should_skip |-> FALSE]

\* the run directory of a new run has no eval_result.json; `writes` counts
\* how often one was written
NoResultFile == [writes |-> 0, content |-> "none"]

\* `with open(eval_result_file, 'w') as f: json.dump(result, f)`
write_once(file, result) ==
    IF file.writes = 0 THEN [writes |-> 1, content |-> result] ELSE file
write_result(file, result) == [writes |-> file.writes + 1, content |-> result]

\* the run directory of run_id among the files
DirOf(run_id) == CHOOSE j \in 1..Len(window.files) : window.files[j].run_id = run_id
HasDir(run_id) == \E j \in 1..Len(window.files) : window.files[j].run_id = run_id

\* the human selects another task of the list
on_task_selected ==
    /\ \E task \in TaskIds :
          /\ task # window.current_task
          /\ window' = [window EXCEPT !.current_task = task,
                                      !.start_button = TRUE]
    /\ UNCHANGED core

\* the human presses Start
start_task ==
    /\ window.start_button
    /\ window.current_task # "none"
    /\ Len(window.threads) < MaxRuns
    /\ LET run_id == RunId(Clock + 1, window.current_task)
       IN  window' = [window EXCEPT
                        !.current_run_id = run_id,
                        !.files = IF HasDir(run_id) THEN @
                                  ELSE Append(@, [run_id |-> run_id,
                                                  result |-> NoResultFile,
                                                  written |-> <<>>]),
                        !.start_button = FALSE,
                        !.validate_button = FALSE,
                        !.error_buttons = FALSE,
                        !.threads = Append(@, NewThread(window.current_task, run_id)),
                        !.execution_thread = Len(window.threads) + 1]
    /\ UNCHANGED core

Signal(kind, success) == [kind |-> kind, success |-> success]

\* a worker thread takes a step of run(), in either of its two loops: an
\* attempt fails and it asks, it
\* resets its latches, it acts on a decision, or it emits its final status
worker ==
    /\ \E i \in 1..Len(window.threads) :
          LET t == window.threads[i]
          IN  \/ /\ t.state = "running"
                 /\ window' = [window EXCEPT
                                 !.threads[i].state = "asked",
                                 !.signals = Append(@, Signal("error_occurred", FALSE))]
              \/ /\ t.state = "asked"
                 /\ window' = [window EXCEPT
                                 !.threads[i].state = "waiting",
                                 !.threads[i].should_retry = FALSE,
                                 !.threads[i].should_skip = FALSE]
              \/ /\ t.state = "waiting"
                 /\ t.should_retry /\ ~t.should_skip
                 /\ window' = [window EXCEPT
                                 !.threads[i].state = "running",
                                 !.threads[i].should_retry = FALSE]
              \/ /\ \/ t.state = "running"
                    \/ t.state = "waiting" /\ t.should_skip
                 /\ \E success \in BOOLEAN :
                       window' = [window EXCEPT
                                    !.threads[i].state = "finished",
                                    !.threads[i].should_retry = FALSE,
                                    !.threads[i].should_skip = FALSE,
                                    !.signals = Append(@, Signal("finished", success))]
    /\ UNCHANGED core

\* the main thread takes the next queued signal
window_on_execution_error ==
    /\ window.signals # <<>>
    /\ Head(window.signals).kind = "error_occurred"
    /\ window' = [window EXCEPT !.signals = Tail(@), !.error_buttons = TRUE]
    /\ UNCHANGED core

\* start_fullscreen of the configuration
StartFullscreen == TRUE

window_on_task_execution_finished ==
    /\ window.signals # <<>>
    /\ Head(window.signals).kind = "finished"
    /\ LET success == Head(window.signals).success
           shown == success /\ StartFullscreen /\ window.current_task # "none"
       IN  window' = [window EXCEPT
                        !.signals = Tail(@),
                        !.error_buttons = FALSE,
                        !.start_button = TRUE,
                        !.validate_button = IF success THEN TRUE ELSE @,
                        !.overlay = IF shown THEN TRUE ELSE @,
                        !.overlay_validate = IF shown THEN TRUE ELSE @]
    /\ UNCHANGED core

\* the worker reads its latches only while it waits, and resets them before
\* it waits again: a latch set at any other time is never read, and is kept
\* FALSE here
Latched(i) == i # 0 /\ window.threads[i].state = "waiting"

\* the human presses Retry or Skip
window_retry_operation ==
    /\ window.error_buttons
    /\ window' = [window EXCEPT
                    !.threads = IF Latched(window.execution_thread)
                                THEN [@ EXCEPT ![window.execution_thread].should_retry = TRUE]
                                ELSE @,
                    !.error_buttons = FALSE]
    /\ UNCHANGED core

window_skip_operation ==
    /\ window.error_buttons
    /\ window' = [window EXCEPT
                    !.threads = IF Latched(window.execution_thread)
                                THEN [@ EXCEPT ![window.execution_thread].should_skip = TRUE]
                                ELSE @,
                    !.error_buttons = FALSE]
    /\ UNCHANGED core

\* what the runner returns: a mapping whose `passed` is true or is not (an
\* error of the runner is one of the latter); prepare_guest_env may raise
\* before the runner has run
ValidationResults == {"passed", "not passed"}

\* the human presses Validate, in the main window or on the overlay; the
\* main thread is busy until validate_task has returned
validate_task ==
    /\ window.validate_button \/ (window.overlay /\ window.overlay_validate)
    /\ window.validations < MaxValidations
    /\ IF window.current_task = "none" \/ window.current_run_id = <<>>
       THEN window' = window
       ELSE \/ window' = [window EXCEPT
                            !.validate_button = TRUE,
                            !.overlay_validate = TRUE]
            \/ \E result \in ValidationResults :
                  window' = [window EXCEPT
                               !.validations = @ + 1,
                               !.files[DirOf(window.current_run_id)].result =
                                   write_result(@, result),
                               !.files[DirOf(window.current_run_id)].written =
                                   Append(@, result),
                               !.validate_button = TRUE,
                               !.overlay_validate = TRUE]
    /\ UNCHANGED core

\* the human closes the overlay
hide_floating_overlay ==
    /\ window.overlay
    /\ window' = [window EXCEPT !.overlay = FALSE]
    /\ UNCHANGED core

InitWindow ==
    /\ vmx_path \in {NormPath(p) : p \in {<<"D", Sep, "V">>}}
    /\ stack = <<>>
    /\ ret = NoRet
    /\ call = NoCall
    /\ spawned = [k \in Kinds |-> 0]
    /\ failed = [k \in Kinds |-> 0]
    /\ lastproc = NoProc
    /\ slept = 0
    /\ phase = "none"
    /\ run = NoRun
    /\ ui = NoUi
    /\ window = NoWindow
    /\ registry = NoRegistry
    /\ guest = NoGuest

NextWindow ==
    \/ on_task_selected
    \/ start_task
    \/ worker
    \/ window_on_execution_error
    \/ window_on_task_execution_finished
    \/ window_retry_operation
    \/ window_skip_operation
    \/ validate_task
    \/ hide_floating_overlay

SpecWindow == InitWindow /\ [][NextWindow]_vars

-----------------------------------------------------------------------------
(* run_config on a task of every paced action type                         *)

\* one action of each type of the action_delays table, and one of a type
\* that is not in it
PacedTypes ==
    {"launch", "chrome_open_tabs", "chrome_close_tabs", "download", "execute",
     "activate_window", "sleep", "mystery"}

PacedAction(type) ==
    IF type = "launch" THEN LaunchAction("notepad", FALSE)
    ELSE IF type = "sleep" THEN SleepAction(1)
    ELSE OtherAction(type)

PacedTasks(n) == UNION {[1..k -> {PacedAction(t) : t \in PacedTypes}] : k \in 0..n}

\* one call of run_config on a stub VM
run_config_paced ==
    /\ stack = <<>>
    /\ call = NoCall
    /\ \E task \in PacedTasks(MaxActions) :
          /\ call' = TaskCall("run_config", task, TRUE, TRUE)
          /\ stack' = <<RunConfigFrame(task, StubVM)>>
    /\ UNCHANGED <<registry, guest, window, vmx_path, ret, spawned, failed, lastproc, slept, phase,
                   run, ui>>

NextPacing ==
    \/ run_config_paced
    \/ run_config
    \/ handler
    \/ handle_launch
    \/ handle_sleep
    \/ stub_run_in_guest

SpecPacing == Init /\ [][NextPacing]_vars

-----------------------------------------------------------------------------

(* Generic actions and the runner in the guest                              *)
(* (src/app/task_adapter.py, src/evaluators/generic_action_runner.py)       *)

\* action types that have no registered handler
UnknownTypes == {"mystery", "riddle"}

GenericTasks(n) == UNION {[1..k -> UnknownTypes] : k \in 1..n}

\* action_filename = f"{task.id}_{action.type}.json", of one task
action_filename(type) == <<"task", type>>

\* the action file of a name in the guest
FileOf(name) == CHOOSE j \in 1..Len(guest.files) : guest.files[j].name = name

\* vm.copy_to_guest(temp_file, guest_action_file): the descriptor of action
\* i is now what the guest has under that name
written(files, name, i) ==
    IF \E j \in 1..Len(files) : files[j].name = name
    THEN [j \in 1..Len(files) |->
             IF files[j].name = name THEN [name |-> name, action |-> i]
             ELSE files[j]]
    ELSE Append(files, [name |-> name, action |-> i])

\* a runner started in the guest for action i with `--action name`; it has
\* not read its action file yet
Started(i, name) == [action |-> i, file |-> name, loaded |-> 0]

\* run_config hands the next action to _handle_generic_action: the
\* descriptor is copied to the guest and the runner is started without
\* waiting for it (nowait=True); the copy may fail, which ends the pipeline,
\* and the start may fail, which is only logged
handle_generic_action ==
    /\ guest.ended = "no"
    /\ guest.i <= Len(guest.task)
    /\ LET name == action_filename(guest.task[guest.i])
       IN  \/ guest' = [guest EXCEPT !.ended = "raised"]
           \/ \E started \in BOOLEAN :
                 guest' = [guest EXCEPT
                             !.files = written(@, name, guest.i),
                             !.runners = IF started
                                         THEN Append(@, Started(guest.i, name))
                                         ELSE @,
                             !.i = @ + 1]
    /\ UNCHANGED <<vmx_path, stack, ret, call, spawned, failed, lastproc, slept,
                   phase, run, ui, window, registry>>

\* main() of a runner in the guest reads the action file it was started
\* with: json.load(f) of what is there at that moment
runner_main ==
    /\ \E r \in 1..Len(guest.runners) :
          /\ guest.runners[r].loaded = 0
          /\ guest' = [guest EXCEPT !.runners[r].loaded =
                          guest.files[FileOf(guest.runners[r].file)].action]
    /\ UNCHANGED <<vmx_path, stack, ret, call, spawned, failed, lastproc, slept,
                   phase, run, ui, window, registry>>

InitGeneric ==
    /\ vmx_path \in {NormPath(p) : p \in {<<"D", Sep, "V">>}}
    /\ stack = <<>>
    /\ ret = NoRet
    /\ call = NoCall
    /\ spawned = [k \in Kinds |-> 0]
    /\ failed = [k \in Kinds |-> 0]
    /\ lastproc = NoProc
    /\ slept = 0
    /\ phase = "none"
    /\ run = NoRun
    /\ ui = NoUi
    /\ window = NoWindow
    /\ registry = NoRegistry
    /\ \E task \in GenericTasks(MaxActions) : guest = [NoGuest EXCEPT !.task = task]

NextGeneric == handle_generic_action \/ runner_main

SpecGeneric == InitGeneric /\ [][NextGeneric]_vars

-----------------------------------------------------------------------------
(* The action registry (src/app/task_adapter.py)                           *)

\* `ACTION_HANDLERS[action_type] = func`
register_first(handlers, action_type, func) ==
    IF handlers[action_type] = 0 THEN [handlers EXCEPT ![action_type] = func]
    ELSE handlers
register_handler(handlers, action_type, func) ==
    [handlers EXCEPT ![action_type] = func]

\* a module is imported and one more @register(action_type) is executed
register ==
    /\ Len(registry.registered) < MaxRegistrations
    /\ \E action_type \in DecoratedTypes :
          registry' = [registry EXCEPT
                         !.ACTION_HANDLERS =
                             register_handler(@, action_type,
                                              Len(registry.registered) + 1),
                         !.registered = Append(@, action_type)]
    /\ UNCHANGED <<vmx_path, stack, ret, call, spawned, failed, lastproc, slept,
                   phase, run, ui, window, guest>>

\* TaskRunner.__init__: self.action_handlers = ACTION_HANDLERS.copy()
TaskRunner_init ==
    /\ Len(registry.runners) < MaxRunners
    /\ registry' = [registry EXCEPT !.runners =
                       Append(@, [action_handlers |-> registry.ACTION_HANDLERS,
                                  built_after |-> Len(registry.registered)])]
    /\ UNCHANGED <<vmx_path, stack, ret, call, spawned, failed, lastproc, slept,
                   phase, run, ui, window, guest>>

\* `handler = self.action_handlers.get(action.type)`; `if handler:` it is
\* called, else the generic handler (0) is
dispatch ==
    /\ \E r \in 1..Len(registry.runners), type \in DispatchedTypes :
          registry' = [registry EXCEPT !.last =
                          [runner |-> r, type |-> type,
                           handler |-> registry.runners[r].action_handlers[type]]]
    /\ UNCHANGED <<vmx_path, stack, ret, call, spawned, failed, lastproc, slept,
                   phase, run, ui, window, guest>>

InitRegistry ==
    /\ vmx_path \in {NormPath(p) : p \in {<<"D", Sep, "V">>}}
    /\ stack = <<>>
    /\ ret = NoRet
    /\ call = NoCall
    /\ spawned = [k \in Kinds |-> 0]
    /\ failed = [k \in Kinds |-> 0]
    /\ lastproc = NoProc
    /\ slept = 0
    /\ phase = "none"
    /\ run = NoRun
    /\ ui = NoUi
    /\ window = NoWindow
    /\ guest = NoGuest
    /\ registry = NoRegistry

NextRegistry == register \/ TaskRunner_init \/ dispatch

SpecRegistry == InitRegistry /\ [][NextRegistry]_vars

-----------------------------------------------------------------------------
(* Properties of the retry engine                                          *)

RetryFrames == {i \in 1..Len(stack) : stack[i].fn = "retry_with_backoff"}

\* every attempt of the call's own command so far ended in a raise
AllFailed(k) == spawned[k] >= 1 /\ failed[k] = spawned[k]

\* C1: a retry policy with max_attempts = N whose operation fails on every
\* attempt invokes the operation exactly N times (with N - 1 backoff sleeps)
\* and then raises an aggregate error that names the operation and embeds the
\* failure of the last attempt; in every retry loop the computed delay never
\* decreases from one attempt to the next and never exceeds max_delay.
C1_ExhaustedRetryRaises ==
    /\ [](Done("retry_with_backoff") /\ AllFailed("operation")
            => /\ spawned["operation"] = call.max_attempts
               /\ slept = call.max_attempts - 1
               /\ ret = Exc(Exception("VMOperationError",
                               call.name
                                 \o <<"failed after", ToStr(call.max_attempts),
                                      "attempts:">>
                                 \o lastproc.out.stderr)))
    /\ [](\A i \in RetryFrames : stack[i].delay <= stack[i].max_delay)
    /\ [][\A i \in RetryFrames :
            i <= Len(stack') /\ stack'[i].fn = "retry_with_backoff"
                => stack'[i].delay >= stack[i].delay]_vars

\* C1 witness: three attempts failed, the second delay was capped at max_delay
C1_Witness ==
    /\ Done("retry_with_backoff")
    /\ call.max_attempts = 3 /\ call.base_delay = 25 /\ call.max_delay = 30
    /\ AllFailed("operation")
    /\ ret.kind = "exc"
    /\ lastproc.out.stderr = <<"e2">>

\* C2: when the operation succeeds on attempt k, the engine returns that
\* attempt's result at once: k invocations (the success is the last one),
\* k - 1 sleeps, k <= max_attempts, nothing runs after the success and no
\* error is raised.
C2_SuccessReturnsImmediately ==
    call.fn = "retry_with_backoff" /\ spawned["operation"] > failed["operation"]
        => /\ spawned["operation"] = failed["operation"] + 1
           /\ lastproc.out.returncode = 0
           /\ slept = failed["operation"]
           /\ spawned["operation"] <= call.max_attempts
           /\ ret = Val(lastproc.out.stdout[1])
           /\ Len(stack) <= 1

\* C2 witness: success on the second attempt of three
C2_Witness ==
    /\ Done("retry_with_backoff")
    /\ call.max_attempts = 3
    /\ spawned["operation"] = 2 /\ failed["operation"] = 1
    /\ ret = Val("r2")

-----------------------------------------------------------------------------
(* Properties of run_in_guest                                              *)

Guest == "runProgramInGuest"

\* the guest command exited non-zero with an error marker in its output
HardError(out) ==
    /\ out.how = "exit" /\ out.returncode # 0
    /\ \E i \in 1..Len(out.stdout) : out.stdout[i] \in ErrorMarkers

\* the guest command exited non-zero without an error marker
Tolerated(out) ==
    /\ out.how = "exit" /\ out.returncode # 0
    /\ \A i \in 1..Len(out.stdout) : out.stdout[i] \notin ErrorMarkers

\* C3 as stated: when every attempt of a guest command fails with a raised
\* error, run_in_guest raises to its caller.
C3_RaisesOnExhaustion ==
    Done("run_in_guest") /\ AllFailed(Guest) => ret.kind = "exc"

\* C3 amended: when every attempt of a guest command fails with a raised
\* error, run_in_guest makes max_attempts attempts and then returns -1 to its
\* caller; it does not raise.
C3_ReturnsMinusOneOnExhaustion ==
    Done("run_in_guest") /\ AllFailed(Guest)
        => ret = Val(-1) /\ spawned[Guest] = call.max_attempts

\* C3 witness: three attempts, all failed, the last one by a timeout
C3_Witness ==
    /\ Done("run_in_guest") /\ AllFailed(Guest)
    /\ spawned[Guest] = 3 /\ lastproc.out = TimedOut

\* C4 as stated: when a guest command exits non-zero with an error marker in
\* its output, run_in_guest raises at once: no further attempt, and no exit
\* code returned in place of the failure.
C4_HardErrorRaisesImmediately ==
    call.fn = "run_in_guest" /\ HardError(lastproc.out)
        => /\ stack = <<>> => ret.kind = "exc"
           /\ ~At("run_operation", "start")

\* C4 amended: when a guest command exits non-zero with an error marker in
\* its standard output, the attempt raises a hard guest error inside the retry
\* engine and its exit code is never returned; the command is attempted again
\* while attempts remain, and after the last attempt run_in_guest returns -1.
C4_HardErrorRetriedThenMinusOne ==
    call.fn = "run_in_guest" /\ HardError(lastproc.out)
        => /\ failed[Guest] = spawned[Guest]
           /\ ret.kind = "val" => stack = <<>> /\ ret.val = -1
           /\ stack = <<>> => spawned[Guest] = call.max_attempts /\ ret = Val(-1)
           /\ spawned[Guest] < call.max_attempts => stack # <<>>

\* C4 witness: the hard error came on the first of three attempts and the
\* engine is about to attempt again
C4_Witness ==
    /\ call.fn = "run_in_guest" /\ call.max_attempts = 3
    /\ HardError(lastproc.out)
    /\ lastproc.out.stdout = <<"[U+5931 U+8D25]">>
    /\ spawned[Guest] = 1
    /\ At("run_operation", "start")

\* C5 as stated: when the deadline of the guest command elapses, the caller of
\* run_in_guest receives a timeout-specific error.
C5_TimeoutIsDistinct ==
    Done("run_in_guest") /\ lastproc.out = TimedOut
        => ret.kind = "exc" /\ ret.exc.type = "VMTimeoutError"

\* C6: a guest command that exits non-zero without an error marker is
\* tolerated: that attempt is the last one, no sleep follows it, and
\* run_in_guest returns its exit code without raising; when no attempt raised
\* before, it is the only attempt.
C6_ToleratedExitCodeReturned ==
    call.fn = "run_in_guest" /\ Tolerated(lastproc.out)
        => /\ ret = Val(lastproc.out.returncode)
           /\ spawned[Guest] = failed[Guest] + 1
           /\ slept = failed[Guest]
           /\ ~At("run_operation", "start")

\* C6 witness: exit code 2 with unmarked output on the only attempt
C6_Witness ==
    /\ Done("run_in_guest")
    /\ lastproc.out.how = "exit" /\ lastproc.out.returncode = 2
    /\ lastproc.out.stdout = <<"error">>
    /\ spawned[Guest] = 1
    /\ ret = Val(2)

\* C7 as stated: every call of run_in_guest spawns exactly one external
\* process.
C7_OneProcessPerCall ==
    Done("run_in_guest") => spawned[Guest] = 1

\* C7 amended: every call of run_in_guest spawns one external process per
\* attempt, at least one and at most max_attempts: exactly one when the first
\* attempt does not raise, one more after every attempt that raised (timeout,
\* control call failure, error marker) while attempts remain.
C7_OneProcessPerAttempt ==
    Done("run_in_guest")
        => /\ spawned[Guest] \in 1..call.max_attempts
           /\ \/ spawned[Guest] = failed[Guest] + 1
              \/ spawned[Guest] = failed[Guest] /\ spawned[Guest] = call.max_attempts
           /\ slept = spawned[Guest] - 1

\* C7 witness: two timeouts, then a clean exit on the third attempt
C7_Witness ==
    /\ Done("run_in_guest")
    /\ spawned[Guest] = 3 /\ failed[Guest] = 2
    /\ ret = Val(0)

-----------------------------------------------------------------------------
(* Properties of the guest file copies                                     *)

CopyCall == call.fn \in {"copy_to_guest", "copy_from_guest"}

\* C8 as stated: when the copy command fails every time, it is issued exactly
\* 3 times and then the copy raises.
C8_CopyCommandIssuedThrice ==
    stack = <<>> /\ CopyCall /\ AllFailed(copy_command(call.fn))
        => spawned[copy_command(call.fn)] = CopyAttempts /\ ret.kind = "exc"

\* C8 amended: a guest file copy uses 3 attempts of the copy operation, and
\* each attempt issues the copy command through _run_vmrun, which makes 3
\* attempts of its own: when the command fails every time it is issued
\* exactly 9 times and then the copy raises.
C8_CopyCommandIssuedNineTimes ==
    stack = <<>> /\ CopyCall /\ AllFailed(copy_command(call.fn))
        => /\ spawned[copy_command(call.fn)] = CopyAttempts * VmrunAttempts
           /\ ret.kind = "exc"
           /\ ret.exc.type = "VMOperationError"

\* C8 witness: a copy from the guest whose command failed nine times
C8_Witness ==
    /\ Done("copy_from_guest")
    /\ AllFailed("CopyFileFromGuestToHost")
    /\ spawned["CopyFileFromGuestToHost"] = 9
    /\ ret.kind = "exc"

-----------------------------------------------------------------------------
(* Properties of the lifecycle                                             *)

\* C9: when the listing succeeds, is_running answers true exactly for the
\* listings that hold the handle's path as it is, with the other separator,
\* in another letter case, or that hold the file name of the path.
C9_IsRunningMatchesListing ==
    (/\ Done("is_running")
     /\ lastproc.kind = "list" /\ lastproc.out.how = "exit"
     /\ lastproc.out.returncode = 0)
        => ret = Val(Listed(vmx_path, lastproc.out.stdout))

\* C9 witness: the path appears in lower case inside a longer listing
C9_Witness ==
    /\ Done("is_running")
    /\ vmx_path = <<"D", Sep, "V">>
    /\ lastproc.out.stdout = <<Space, "d", Sep, "v">>
    /\ ret = Val(TRUE)

-----------------------------------------------------------------------------
(* Properties of the snapshot pre-check                                    *)

Revert == "revertToSnapshot"

\* the last pre-check of the call was told nothing (the listing command
\* failed) or was told a listing that does not offer the snapshot
PrecheckFailed ==
    /\ run.prechecks >= 1
    /\ ~(run.listing.ok /\ Contains(run.listing.stdout, call.name))

\* a revertToSnapshot command is being issued
Reverting ==
    \E i \in 1..Len(stack) :
        stack[i].fn = "run_vmrun" /\ stack[i].env.kind = Revert

\* the error revert_snapshot ends with when its last pre-check failed
PrecheckError ==
    Exception("VMOperationError",
              <<"snapshot revert", "failed after", "2", "attempts:", "Snapshot">>
                  \o call.name \o <<"not found in VM">>)

\* C11 as stated: revert_snapshot on a target whose snapshot listing fails or
\* does not offer the snapshot (it reports "encrypted") returns to its caller
\* without raising.
C11_UnavailableReturnsQuietly ==
    Done("revert_snapshot") /\ PrecheckFailed /\ lastproc.kind = "listSnapshots"
        => ret.kind = "val"

\* C11 amended: revert_snapshot on a target whose snapshot listing fails or
\* does not offer the snapshot (it reports "encrypted") raises to its
\* caller: every attempt of the retry engine raises "Snapshot not found", and
\* after the second attempt revert_snapshot ends with the aggregate error
\* that embeds it.
C11_UnavailableRaises ==
    Done("revert_snapshot") /\ PrecheckFailed /\ lastproc.kind = "listSnapshots"
        => ret = Exc(PrecheckError)

\* C11 witness: the listing reported "encrypted" to the last pre-check
C11_Witness ==
    /\ Done("revert_snapshot")
    /\ call.name = <<"clean">>
    /\ run.listing = [ok |-> TRUE, stdout |-> <<"encrypted">>]
    /\ lastproc.kind = "listSnapshots"
    /\ spawned[Revert] = 0
    /\ ret.kind = "exc"

\* C12 as stated: when the snapshot pre-check fails, no revertToSnapshot
\* command is issued and the pre-check is performed only once for that
\* revert_snapshot call.
C12_PrecheckOnce ==
    /\ PrecheckFailed => ~Reverting
    /\ Done("revert_snapshot") /\ spawned[Revert] = 0 => run.prechecks = 1

\* C12 amended: a failed snapshot pre-check is never followed by the
\* revertToSnapshot command (the command is only ever issued after a
\* pre-check that was told a listing offering the snapshot), but it is
\* retried: the pre-check sits inside the operation the retry engine repeats,
\* so a revert_snapshot call whose pre-check fails every time performs it 2
\* times, with 2 to 6 listing commands, before it raises.
C12_PrecheckOncePerAttempt ==
    /\ PrecheckFailed => ~Reverting
    /\ Done("revert_snapshot") /\ spawned[Revert] = 0
          => /\ run.prechecks = RevertAttempts
             /\ spawned["listSnapshots"] \in
                    RevertAttempts..(RevertAttempts * VmrunAttempts)
             /\ ret.kind = "exc"

\* C12 witness: the first pre-check saw the listing command fail three times,
\* the second one was told a listing without the snapshot
C12_Witness ==
    /\ Done("revert_snapshot")
    /\ call.name = <<"gone">>
    /\ spawned[Revert] = 0
    /\ run.prechecks = 2
    /\ spawned["listSnapshots"] = 4 /\ failed["listSnapshots"] = 3
    /\ run.listing.ok

-----------------------------------------------------------------------------
(* Properties of the revert in VM preparation                              *)

StopsIssued == spawned["stop soft"] + spawned["stop hard"]

\* a call of fn is in progress somewhere on the stack
OnStack(fn) == \E i \in 1..Len(stack) : stack[i].fn = fn

\* C13 as stated: when the revert is made while the VM is running, a stop
\* command has been issued before the revertToSnapshot command is issued.
C13_StopBeforeRevert ==
    call.fn = "prepare_for_task" /\ run.was_running = "yes" /\ Reverting
        => StopsIssued >= 1

\* C13 amended: revert_snapshot issues no stop command, whether the VM is
\* running or not.  In prepare_for_task a VM that is_running reports as
\* running is neither stopped nor started before the revert: the snapshot
\* pre-check and then the revertToSnapshot command are issued on the running
\* VM.
C13_RevertWithoutStop ==
    call.fn \in {"prepare_for_task", "revert_snapshot"}
        => /\ ~OnStack("stop") /\ ~OnStack("stop_operation")
           /\ call.fn = "prepare_for_task" => StopsIssued = 0
           /\ call.fn = "prepare_for_task" /\ run.was_running = "yes"
                 /\ phase = "none"
                 => ~OnStack("start_from_scratch") /\ ~OnStack("start")

\* C13 witness: the revertToSnapshot command is being issued on a VM that
\* was found running, and no stop command was issued
C13_Witness ==
    /\ call.fn = "prepare_for_task"
    /\ run.was_running = "yes"
    /\ At("vmrun_operation", "start") /\ Top.env.kind = Revert
    /\ StopsIssued = 0

-----------------------------------------------------------------------------
(* Properties of start and stop                                            *)

\* the launcher was started and lives, and the VM was not in the listing
\* after the waits of the start operation: the one wait of start, the two
\* waits of start_from_scratch
NotVisible ==
    /\ lastproc.kind = "vmware" /\ lastproc.out.how = "exit"
    /\ IF call.fn = "start"
       THEN run.since = <<FALSE>>
       ELSE /\ run.since = <<FALSE, FALSE>>
            /\ run.poll.polled /\ run.poll.none

\* C15 as stated: in every start operation of the controller (start and
\* start_from_scratch), a fullscreen start whose launcher lives but whose VM
\* is not in the listing after the waits completes as a success: it does not
\* raise and is not retried.
C15_EveryStartTolerates ==
    call.fn \in {"start", "start_from_scratch"} /\ NotVisible
        => /\ ret.kind # "exc"
           /\ stack = <<>> => ret = Val("None")

\* C15 amended: only start_from_scratch tolerates it.  In start_from_scratch
\* a fullscreen start whose launcher lives but whose VM is not in the listing
\* after the first and the second wait completes as a success: the attempt
\* does not raise and is not retried.  In start the same case raises "VM
\* failed to start" after the single wait and is retried; when it happens on
\* the last of the 3 attempts, start raises the aggregate error.
C15_StartFromScratchTolerates ==
    /\ call.fn = "start_from_scratch" /\ NotVisible
          => /\ ret.kind # "exc"
             /\ stack = <<>> => ret = Val("None")
    /\ Done("start") /\ NotVisible
          => /\ spawned["vmware"] = StartAttempts
             /\ ret = Exc(Exception("VMOperationError",
                            <<"VM start", "failed after", "3", "attempts:",
                              "VM failed to start">>))

\* C15 witness: start_from_scratch returned after a single launch whose VM
\* never appeared in the listing
C15_Witness ==
    /\ Done("start_from_scratch") /\ call.fullscreen
    /\ NotVisible
    /\ spawned["vmware"] = 1
    /\ ret = Val("None")

\* C16: stop is best-effort.  Whatever the soft-stop and hard-stop commands
\* do (fail, time out, no control binary), stop returns to its caller without
\* raising, and it issues at most 2 * (3 + 3) = 12 commands.
C16_StopNeverRaises ==
    call.fn = "stop"
        => /\ StopsIssued <= StopAttempts * (VmrunAttempts + VmrunAttempts)
           /\ spawned["stop hard"] <= spawned["stop soft"]
           /\ stack = <<>> => ret = Val("None")

\* C16 witness: all six soft stops and all six hard stops failed, the last
\* one by a timeout
C16_Witness ==
    /\ Done("stop")
    /\ AllFailed("stop soft") /\ spawned["stop soft"] = 6
    /\ AllFailed("stop hard") /\ spawned["stop hard"] = 6
    /\ lastproc.out = TimedOut
    /\ ret = Val("None")

-----------------------------------------------------------------------------
(* Properties of the login wait                                            *)

Probe == "listProcessesInGuest"

\* C17: the login wait with budget T makes at most T guest access probes,
\* returns true at the first probe that answers true without probing
\* further, returns false after T probes that answered false, and never
\* raises.
C17_WaitProbesAtMostBudget ==
    call.fn = "wait_for_user_login"
        => /\ run.probes <= call.timeout
           /\ run.probe_ok <= 1
           /\ run.probe_ok = 1 => ~OnStack("test_guest_access")
           /\ stack = <<>>
                 => /\ ret.kind = "val"
                    /\ ret.val = (run.probe_ok = 1)
                    /\ ~ret.val => run.probes = call.timeout

\* C17 witness: two probes answered false, the third and last one true
C17_Witness ==
    /\ Done("wait_for_user_login")
    /\ call.timeout = 3
    /\ run.probes = 3 /\ run.probe_ok = 1
    /\ ret = Val(TRUE)

\* C18 as stated: a probe issues exactly one control-surface command and
\* takes no backoff sleep.
C18_ProbeIssuesOneCommand ==
    Done("test_guest_access") => spawned[Probe] = 1 /\ slept = 0

-----------------------------------------------------------------------------
(* Properties of a task run                                                *)

\* the final status of a run the human stopped at a preparation error
SkippedPreparation ==
    [success |-> FALSE,
     message |-> <<"Task execution failed:", "VM preparation skipped by user">>]

\* C14: in a task run no action of the task is dispatched, and the action
\* pipeline is not entered, unless prepare_for_task has returned without
\* error in that run; a run whose preparation failed for good (the third
\* attempt raised, or the human answered skip to a preparation error) ends
\* with exactly one final status, a failure, and without any action.
C14_NoActionWithoutPreparation ==
    call.fn = Thread
        => /\ run.acted \/ OnStack("run_config") => run.prepared
           /\ \A i \in 1..Len(ui.finished) :
                 /\ ui.finished[i].success => run.prepared
                 /\ ui.finished[i] = SkippedPreparation => ~run.acted
           /\ stack = <<>> /\ ~run.prepared
                 => /\ Len(ui.finished) = 1
                    /\ ~ui.finished[1].success
                    /\ ~run.acted

\* C14 witness: the first preparation failed, the human answered skip, and
\* the run ended with a failure without an action
C14_Witness ==
    /\ Done(Thread)
    /\ call.task # <<>>
    /\ ui.finished = <<SkippedPreparation>>
    /\ ~run.prepared /\ ~run.acted

\* C19 as stated: in a task run no action is dispatched before the login
\* wait has been invoked after the preparation and has returned.
C19_GateBeforeActions ==
    call.fn = Thread /\ run.acted => run.gate = "returned"

\* C20: within one run of run_config the handlers are invoked in the order
\* of the action list, each action at most once and with its own action, and
\* the handler of an action is invoked only when the handlers of all earlier
\* actions have returned.
C20_HandlersInListOrder ==
    call.fn \in {"run_config", Thread}
        => /\ Len(run.dispatched) <= Len(call.task)
           /\ \A j \in 1..Len(run.dispatched) : run.dispatched[j] = j
           /\ \A i \in 1..Len(stack) :
                 stack[i].fn \in HandlerFns
                    => /\ stack[i].index = Len(run.dispatched)
                       /\ stack[i].action = call.task[stack[i].index]
                       /\ stack[i].fn = handler_for(stack[i].action.type)
                       /\ run.returned = Len(run.dispatched) - 1
           /\ (\A fn \in HandlerFns : ~OnStack(fn))
                 => run.returned = Len(run.dispatched)

\* C20 witness: a run of three actions, the third one handled by the generic
\* handler, all returned
C20_Witness ==
    /\ Done("run_config")
    /\ call.task = <<SleepAction(2), LaunchAction("notepad", FALSE),
                     OtherAction("mystery")>>
    /\ run.dispatched = <<1, 2, 3>>
    /\ run.returned = 3
    /\ ret = Val("None")

-----------------------------------------------------------------------------
(* Properties of a handler's outcome                                       *)

\* run_config is about to look at the outcome of the handler it invoked
Handled == call.fn = "run_config" /\ At("run_config", "handled")

\* C21: when a handler raises, run_config dispatches no later action and
\* ends with that same error; when a handler returns false (or anything
\* else), run_config goes on to the next action of the list, which is the
\* next one dispatched.
C21_RaiseEndsFalseContinues ==
    /\ [][Handled /\ ret.kind = "exc"
            => /\ stack' = <<>>
               /\ ret' = ret
               /\ run'.dispatched = run.dispatched]_vars
    /\ [][Handled /\ ret.kind = "val"
            => /\ At("run_config", "loop")'
               /\ stack'[1].i = stack[1].i + 1
               /\ run'.dispatched = run.dispatched]_vars
    /\ [][call.fn = "run_config" /\ At("run_config", "loop")
             /\ Top.i <= Len(Top.task)
            => run'.dispatched = Append(run.dispatched, Top.i)]_vars
    /\ [](Done("run_config") /\ ret.kind = "val"
            => Len(run.dispatched) = Len(call.task))

\* C21 witness: of three actions the first returned false, the second raised
\* and the third was never dispatched
C21_Witness ==
    /\ Done("run_config")
    /\ Len(call.task) = 3
    /\ run.dispatched = <<1, 2>>
    /\ run.outcomes = <<"False", "raised">>
    /\ ret.kind = "exc"

-----------------------------------------------------------------------------
(* Properties of the retry/skip protocol of the pipeline                   *)

\* the worker thread ended after the human chose Skip on a pipeline error
SkippedPipeline ==
    /\ Done(Thread)
    /\ ui.should_skip
    /\ Len(ui.finished) = 1
    /\ ui.finished[1].success

\* C22 as stated: after a skip decision on an action whose handler raised,
\* the actions that follow the failed action are still dispatched, in order.
C22_SkipContinuesPipeline ==
    SkippedPipeline
        => run.dispatched = [j \in 1..Len(call.task) |-> j]

\* C22: a skip decision on a pipeline error tolerates the failure, the run
\* ends at once with the success status "Task started successfully", and the
\* actions that follow the failed action are never dispatched.
C22_SkipAbandonsPipeline ==
    /\ [][call.fn = Thread /\ At(Thread, "config_wait") /\ ui.should_skip
             /\ stack' # stack
            => /\ stack' = <<>>
               /\ ui'.finished = <<[success |-> TRUE,
                                    message |-> <<"Task started successfully">>]>>
               /\ run'.dispatched = run.dispatched]_vars
    /\ [](SkippedPipeline
            => /\ run.dispatched = [j \in 1..run.returned |-> j]
               /\ run.returned >= 1)

\* C22 witness: the first of two actions raised, the human skipped, and the
\* run ended in success with the second action never dispatched
C22_Witness ==
    /\ SkippedPipeline
    /\ Len(call.task) = 2
    /\ run.dispatched = <<1>>

\* C23: the pipeline is executed at most 3 times in a task run and the human
\* is asked about a pipeline error at most 2 times; when the last allowed
\* attempt fails, the worker does not ask and does not wait: it ends the run
\* with the failure status that carries the error of that attempt.
C23_BoundedAttempts ==
    /\ [](call.fn = Thread => run.pipelines <= 3 /\ run.asked <= 2)
    /\ [][call.fn = Thread /\ At(Thread, "configured") /\ ret.kind = "exc"
             /\ run.pipelines = 3
            => /\ stack' = <<>>
               /\ ui'.pending = ui.pending
               /\ run'.asked = run.asked
               /\ ui'.finished =
                    <<[success |-> FALSE,
                       message |-> <<"Task execution failed:">> \o ret.exc.msg]>>]_vars

\* C23 witness: three runs of the pipeline failed, the human was asked twice
\* and the run ended in failure
C23_Witness ==
    /\ Done(Thread)
    /\ run.pipelines = 3
    /\ run.asked = 2
    /\ ui.finished = <<[success |-> FALSE,
                        message |-> <<"Task execution failed:", "action failed">>]>>

\* the worker polls its latches in one of its two wait loops
Polling ==
    /\ stack # <<>>
    /\ Top.fn = Thread
    /\ Top.pc \in {"prepare_wait", "config_wait"}

\* C32: no decision is lost: whatever the interleaving of the main window
\* and the worker, once the human has decided on the error that was surfaced
\* the worker that polls its latches finds one of them set, so that it leaves
\* its wait loop and never waits forever
C32_DecisionObserved ==
    (Polling /\ ui.decided) => (ui.should_retry \/ ui.should_skip)

-----------------------------------------------------------------------------
\* the worker runs the pipeline again after a retry decision
Retried == call.fn = Thread /\ run.pipelines > 1 /\ run.dispatched # <<>>

\* C34 as stated: on a retry decision after an action failed, only the failed
\* action and the actions after it are dispatched again
C34_ResumesAtFailedAction ==
    Retried => run.dispatched[1] = run.failed_at

\* C34: on a retry decision after an action failed the worker enters
\* run_config anew, and the pipeline is dispatched again from its first
\* action: the actions that had completed before the failure are dispatched
\* a second time
C34_RestartsAtFirstAction ==
    /\ call.fn = Thread /\ run.dispatched # <<>> => run.dispatched[1] = 1
    /\ call.fn = Thread => run.dispatched = [j \in 1..Len(run.dispatched) |-> j]

\* C34 witness: the second action failed after the first had completed, the
\* human chose Retry, and the first action was dispatched again
C34_Witness ==
    /\ Retried
    /\ run.failed_at = 2
    /\ ui.should_retry
    /\ run.dispatched[1] = 1

-----------------------------------------------------------------------------

(* Properties of the final status of a task run                            *)

\* the worker thread takes the step that ends run()
Ending == call.fn = Thread /\ Len(stack) = 1 /\ stack' = <<>>

\* the error of the attempt that went wrong last in the run that is ending:
\* the one just raised to the worker, or the one the human was asked about
LastError == IF ret.kind = "exc" THEN ret.exc ELSE Top.error

Failure(msg) == [success |-> FALSE, message |-> <<"Task execution failed:">> \o msg]
Success == [success |-> TRUE, message |-> <<"Task started successfully">>]

\* the worker has emitted one final status if it has ended, none before
OneFinalStatus ==
    call.fn = Thread
        => Len(ui.finished) = IF stack = <<>> THEN 1 ELSE 0

\* C30 as stated: every terminating task run emits exactly one final status,
\* and when the run failed, in VM preparation or in the pipeline, that status
\* is a failure carrying the message of the last underlying error.
C30_FailureCarriesLastError ==
    /\ []OneFinalStatus
    /\ [][Ending /\ LastError # NoException
            => ui'.finished = <<Failure(LastError.msg)>>]_vars

\* C30: every terminating task run emits exactly one final status and no
\* run ends without one.  When the last allowed attempt of the preparation or
\* of the pipeline raised, the status is a failure carrying that error's
\* message; after a skip decision on a preparation error it is a failure
\* carrying "VM preparation skipped by user" instead of the error; after a
\* skip decision on a pipeline error it is the success status.
C30_OneFinalStatus ==
    /\ []OneFinalStatus
    /\ [][Ending /\ ret.kind = "exc"
            => /\ ~asks(Top.attempt)
               /\ ui'.finished = <<Failure(ret.exc.msg)>>]_vars
    /\ [][Ending /\ At(Thread, "prepare_wait")
            => /\ ui.should_skip
               /\ ui'.finished = <<Failure(<<"VM preparation skipped by user">>)>>]_vars
    /\ [][Ending /\ At(Thread, "config_wait")
            => /\ ui.should_skip
               /\ ui'.finished = <<Success>>]_vars
    /\ [][Ending /\ ret.kind = "val" => ui'.finished = <<Success>>]_vars

\* C30 witness: the third attempt of the preparation raised and the run ended
\* with the failure status that carries its message
C30_Witness ==
    /\ Done(Thread)
    /\ ~run.prepared
    /\ ~ui.should_skip
    /\ Len(ui.finished) = 1
    /\ ~ui.finished[1].success
    /\ Len(ui.finished[1].message) > 1
    /\ ui.finished[1].message # <<"Task execution failed:", "VM preparation skipped by user">>

-----------------------------------------------------------------------------
(* Properties of the pipeline [sleep(2), launch("notepad")] on a stub VM   *)

SleepThenLaunch == <<SleepAction(2), LaunchAction("notepad", FALSE)>>

\* the events of one kind in the trace of the pipeline
Events(what) == {j \in 1..Len(run.trace) : run.trace[j].what = what}

\* the pipeline [sleep(2), launch("notepad")] has run to its end on the stub
RanSleepThenLaunch == Done("run_config") /\ call.task = SleepThenLaunch

\* C27 as stated: the pipeline [sleep(2), launch("notepad")] on a stub VM
\* handle invokes the guest executor exactly twice, in list order, with the
\* pacing delay inserted between the two actions and not after the last one.
C27_TwoGuestCallsOnePace ==
    RanSleepThenLaunch
        => /\ Cardinality(Events("guest")) = 2
           /\ Cardinality(Events("pace")) = 1
           /\ \A j \in Events("pace") : run.trace[j].index = 1

\* C27: the pipeline [sleep(2), launch("notepad")] on a stub VM handle
\* invokes the guest executor exactly once, for the launch, after the sleep
\* action has slept 2 seconds on the host; no pacing delay is inserted at
\* all, neither between the two actions (the delay after a sleep action is
\* 0) nor after the last one; and no pipeline paces after its last action.
C27_OneGuestCallNoPace ==
    /\ (RanSleepThenLaunch
          => /\ run.trace = <<Event("sleep", 1, "", 20),
                              Event("guest", 2,
                                    "C:\\Windows\\System32\\notepad.exe", 0)>>
             /\ ret = Val("None"))
    /\ (call.fn = "run_config"
          => \A j \in Events("pace") : run.trace[j].index < Len(call.task))

\* C27 witness: the pipeline has run, the stub was asked once and raised, and
\* the launch handler turned that into a return of False
C27_Witness ==
    /\ RanSleepThenLaunch
    /\ Cardinality(Events("guest")) = 1
    /\ run.outcomes = <<"None", "False">>

-----------------------------------------------------------------------------
(* Properties of the evaluator's dispatcher                                *)

\* evaluate_task has ended for a list of function names, all of them strings
EvaluatedList ==
    /\ Done("evaluate_task")
    /\ call.is_list
    /\ \A j \in 1..Len(call.func) : call.func[j] # "None"

\* the individual outcomes, as the evaluators returned them
Outcomes == ret.val.details.results

C26_WitnessAnd ==
    /\ EvaluatedList
    /\ call.conj = "absent"
    /\ Len(call.func) = 2
    /\ ~Outcomes[1].passed /\ Outcomes[2].passed
    /\ ~ret.val.passed

-----------------------------------------------------------------------------
(* Properties of the debug port                                            *)

\* the ports derived so far for the window
Ports == {run.ports[j].port : j \in 1..Len(run.ports)}

\* C28: with no explicit debug port, chrome_open_tabs and chrome_close_tabs
\* derive the identical port for the same window tag on every invocation,
\* and the derived port lies in [9222, 11221].
C28_StablePort ==
    call.debug_port = 0
        => /\ Cardinality(Ports) <= 1
           /\ \A port \in Ports : 9222 <= port /\ port <= 11221

\* C28 witness: the default tag "osworld" was used by both handlers, which
\* derived 10951 each time
C28_Witness ==
    /\ call.debug_port = 0
    /\ call.window_tag = DefaultTag
    /\ Len(run.ports) = 3
    /\ {run.ports[j].handler : j \in 1..3} = {"chrome_open_tabs", "chrome_close_tabs"}
    /\ Ports = {10951}

-----------------------------------------------------------------------------
(* Properties of the evaluator bridge                                      *)

\* a mapping with a boolean passed and a details mapping
WellFormed(result) ==
    /\ DOMAIN result = {"passed", "details"}
    /\ result.passed \in BOOLEAN
    /\ "error" \in DOMAIN result.details

\* C25: whatever the outcome of its steps (task file copy, guest evaluator
\* run, result transfer, result parse), EvaluatorRunner.run never raises and
\* returns a mapping with a boolean passed and a details mapping; when the
\* result file is missing on the host after the transfer, it returns
\* passed = false with details.error "Result file not found after copying
\* from guest".
C25_AlwaysWellFormed ==
    Done(Runner)
        => /\ ret.kind = "val"
           /\ WellFormed(ret.val)
           /\ (run.host_result = "missing"
                 => ret.val = runner_error(
                       <<"Result file not found after copying from guest">>))
           /\ (run.host_result \in {"not json", "not mapping"}
                 => ~ret.val.passed /\ ret.val.details.evaluator_type = "runner")

\* C25 witness: the transfer went through and the result file is not there
C25_Witness ==
    /\ Done(Runner)
    /\ run.host_result = "missing"
    /\ ~ret.val.passed

\* the transfer itself failed on every attempt
C25_WitnessTransferFailed ==
    /\ Done(Runner)
    /\ run.host_result = "none"
    /\ ret.val.details.error[1] = "copy from guest"

-----------------------------------------------------------------------------
(* Properties of the main window                                           *)

\* the worker threads that have not emitted their final status
Unfinished == {i \in 1..Len(window.threads) : window.threads[i].state # "finished"}

\* C24: tasks are processed one at a time: whatever the human selects, starts,
\* retries or skips, no second task execution thread is started while an
\* earlier one has not finished
C24_OneThreadAtATime == Cardinality(Unfinished) <= 1

\* C33: validation never runs concurrently with a task execution: while a
\* task execution thread has not finished, no validation is started, neither
\* from the validate button of the main window nor from that of the floating
\* overlay
C33_NoValidationDuringRun ==
    [][window'.validations > window.validations => Unfinished = {}]_vars

\* the eval_result.json files of the run directories
ResultFiles == {window.files[j] : j \in 1..Len(window.files)}

\* C29 as stated: the result file of a run is written at most once and its
\* content never changes afterwards
C29_WrittenOnce ==
    [][\A j \in 1..Len(window.files) :
          window.files[j].result.writes > 0
              => window'.files[j].result = window.files[j].result]_vars

\* C29: every validation of a run that gets a result from the runner writes
\* the run's eval_result.json anew: the file has been written once per such
\* validation and holds the result of the latest one
C29_RewrittenOnEveryValidation ==
    \A f \in ResultFiles :
        /\ f.result.writes = Len(f.written)
        /\ f.written # <<>> => f.result.content = f.written[Len(f.written)]

\* a run validated twice, with two different results
C29_Witness ==
    \E f \in ResultFiles :
        /\ f.written = <<"not passed", "passed">>
        /\ f.result = [writes |-> 2, content |-> "passed"]

-----------------------------------------------------------------------------
(* Properties of the pacing between actions                                *)

\* the delay after an action of a type, in tenths of a second
PacingDelay(type) ==
    CASE type = "launch" -> 30
      [] type = "chrome_open_tabs" -> 20
      [] type = "execute" -> 20
      [] type = "chrome_close_tabs" -> 10
      [] type = "download" -> 10
      [] type = "activate_window" -> 10
      [] type = "sleep" -> 0
      [] OTHER -> 20

\* the actions of the task that run_config has left behind: their handler
\* has returned and the loop has moved on
Passed ==
    IF stack # <<>> THEN 1..(stack[1].i - 1)
    ELSE IF ret.kind = "val" THEN 1..Len(call.task)
    ELSE 1..(Len(run.dispatched) - 1)

PacesOf(i) == {j \in Events("pace") : run.trace[j].index = i}

\* C31: after each action that is not the last of the list run_config sleeps
\* the delay of the type of the action just completed (launch 3 s,
\* chrome_open_tabs and execute 2 s, chrome_close_tabs, download and
\* activate_window 1 s, sleep none, any other type 2 s), once, and it never
\* sleeps a pacing delay after the last action
C31_PacingByType ==
    call.fn = "run_config" =>
        /\ \A j \in Events("pace") :
              LET e == run.trace[j]
              IN  /\ e.index \in Passed
                  /\ e.index < Len(call.task)
                  /\ e.time = PacingDelay(call.task[e.index].type)
                  /\ e.time > 0
        /\ \A i \in Passed :
              Cardinality(PacesOf(i)) =
                  IF i < Len(call.task) /\ PacingDelay(call.task[i].type) > 0
                  THEN 1 ELSE 0

\* a pipeline of a quick action, a sleep and a launch has run to its end:
\* one second after the first, nothing after the sleep, nothing after the
\* last
C31_Witness ==
    /\ Done("run_config")
    /\ ret.kind = "val"
    /\ Len(call.task) = 3
    /\ call.task[1].type = "chrome_close_tabs"
    /\ call.task[2].type = "sleep"
    /\ call.task[3].type = "launch"
    /\ \E j \in PacesOf(1) : run.trace[j].time = 10
    /\ PacesOf(2) = {}
    /\ PacesOf(3) = {}

-----------------------------------------------------------------------------
(* Properties of the verdict of the evaluator bridge                       *)

\* C35: the verdict EvaluatorRunner.run returns was produced by the
\* evaluator invocation of that same call: when the guest evaluator of the
\* call did not run (its guest command failed on every attempt), no result
\* of a guest evaluator, left in the guest by an earlier evaluation of the
\* same task id, is pulled back and returned
C35_VerdictOfThisCall ==
    Done(Runner) /\ run.evaluator = "failed" /\ ret.kind = "val"
        => ret.val.details.evaluator_type = "runner"

-----------------------------------------------------------------------------
(* Properties of ensure_guest_dir                                          *)

\* the last guest command of the call completed with exit code 0
DirectoryCreated ==
    /\ lastproc.kind = "runProgramInGuest"
    /\ lastproc.out.how = "exit"
    /\ lastproc.out.returncode = 0

\* C36: ensure_guest_dir returns normally only if the guest command that
\* creates the directory completed with exit code 0; when that command fails
\* on every attempt, ensure_guest_dir retries it under its own policy of 2
\* attempts and then raises
C36_ReturnsOnlyIfCreated ==
    Done("ensure_guest_dir")
        => IF DirectoryCreated
           THEN ret.kind = "val"
           ELSE ret.kind = "exc"

-----------------------------------------------------------------------------
(* Properties of is_running when the listing fails                         *)

\* every attempt at `vmrun list` of the call failed or timed out
ListingFailed ==
    /\ spawned["list"] = VmrunAttempts
    /\ failed["list"] = VmrunAttempts

\* C37: is_running never raises: when the listing fails or times out on
\* every attempt it returns false, so that a VM whose power state cannot be
\* determined is reported as not running, and prepare_for_task starts the VM
\* from scratch whenever is_running has answered false
C37_NeverRaises ==
    /\ [](Done("is_running")
            => /\ ret.kind = "val"
               /\ ret.val \in BOOLEAN
               /\ (ListingFailed => ret.val = FALSE))
    /\ [][At("prepare_for_task", "checked") /\ ret.kind = "val" /\ ret.val = FALSE
            => /\ Len(stack') = Len(stack) + 1
               /\ stack'[Len(stack')].fn = "start_from_scratch"]_vars

\* C37 witness: three listings timed out and is_running answered false
C37_Witness ==
    /\ Done("is_running")
    /\ ListingFailed
    /\ lastproc.out.how = "timeout"
    /\ ret = Val(FALSE)

-----------------------------------------------------------------------------
(* Properties of the generic actions                                       *)

\* C38: each unknown-type action is executed from its own descriptor: the
\* guest action file written for one unknown action is never overwritten by a
\* later unknown action of the same type in the same task before the runner
\* started for the earlier action has read it
C38_OwnDescriptor ==
    \A r \in 1..Len(guest.runners) :
        guest.runners[r].loaded # 0
            => guest.runners[r].loaded = guest.runners[r].action


-----------------------------------------------------------------------------
(* C39: the last registration of a type wins                               *)

\* the position of the last @register of `type` among the first n executed,
\* 0 when there is none
LastRegistered(type, n) ==
    LET at == {j \in 1..n : registry.registered[j] = type}
    IN  IF at = {} THEN 0 ELSE CHOOSE j \in at : \A k \in at : k <= j

\* C39: the registry holds, for every action type, the handler registered
\* last under it; a TaskRunner holds the handler registered last among the
\* registrations made before its construction, whatever is registered
\* afterwards, and run_config dispatches an action to that handler only (to
\* the generic handler when the type had none).
C39_LastRegistrationWins ==
    /\ \A type \in DispatchedTypes :
          registry.ACTION_HANDLERS[type] =
              LastRegistered(type, Len(registry.registered))
    /\ \A r \in 1..Len(registry.runners), type \in DispatchedTypes :
          registry.runners[r].action_handlers[type] =
              LastRegistered(type, registry.runners[r].built_after)
    /\ registry.last.runner # 0 =>
          registry.last.handler =
              LastRegistered(registry.last.type,
                             registry.runners[registry.last.runner].built_after)

\* open and activate_window are each registered twice, as in the source; a
\* TaskRunner built after the first registration of open dispatches open to
\* the first handler, one built after all four to the second
C39_Witness ==
    /\ registry.registered = <<"open", "activate_window", "open", "activate_window">>
    /\ Len(registry.runners) = 2
    /\ registry.runners[1].built_after = 1
    /\ registry.runners[2].built_after = 4
    /\ registry.last = [runner |-> 2, type |-> "open", handler |-> 3]


-----------------------------------------------------------------------------
(* C40: the snapshot prepare_for_task reverts to                           *)

\* the snapshot names that a call in progress has passed to the snapshot
\* pre-check, and those it has passed to the revertToSnapshot command
PrecheckedNames ==
    {stack[i].name : i \in {j \in 1..Len(stack) : stack[j].fn = "can_revert_snapshot"}}
RevertedNames ==
    {stack[i].env.name :
        i \in {j \in 1..Len(stack) : /\ stack[j].fn = "revert_operation"
                                     /\ stack[j].pc = "reverted"}}

\* C40: with snapshots enabled, the name prepare_for_task passes to the
\* snapshot pre-check and to the revertToSnapshot command is the configured
\* snapshot_name, whatever name is configured.
C40_RevertsToConfigured ==
    call.fn = "prepare_for_task" /\ call.use_snapshots
        => \A name \in PrecheckedNames \cup RevertedNames :
              name = call.snapshot_name

====
